---- MODULE Spec2Model ----
(***************************************************************************)
(* The Phoenix Engine resurrection protocol of civic_angel/phoenix.py:     *)
(* the phase-state machine of PhoenixEngine (disperse / resurrect), the    *)
(* custodian registry (DistributedCustodianship), fragment integrity       *)
(* (CustodianFragment), the Gestalt alignment score and the beacons that   *)
(* disperse triggers.                                                      *)
(*                                                                         *)
(* Spec, SpecTamper, SpecRegistry and SpecBoot are about the engine that   *)
(* PhoenixEngine() builds by default: no owner object (civic_angel_core =  *)
(* None).  In that mode no await of disperse or resurrect really suspends  *)
(* (every awaited coroutine runs to completion without yielding), so each  *)
(* call is one atomic step.  SpecOwner is about an engine with an owner,   *)
(* whose initialize / activate may suspend or raise, called by concurrent  *)
(* callers on one event loop.                                              *)
(*                                                                         *)
(* Floats are exact rationals <<numerator, denominator>> in lowest terms.  *)
(* Wall-clock time is an integer number of seconds.                        *)
(***************************************************************************)
EXTENDS Integers, Sequences, FiniteSets, TLC

(***************************************************************************)
(* Bounds of the exploration.                                              *)
(***************************************************************************)
MaxDisperse == 2
MaxTamper == 1
MaxTicks == 1
MaxCycles == 2
MaxPatterns == 2
MaxReplications == 1
MaxResurrect == 2

(***************************************************************************)
(* Generic helpers: Python dicts are functions, a missing key is absent    *)
(* from the domain.                                                        *)
(***************************************************************************)
EmptyDict == <<>>

Get(d, k, default) == IF k \in DOMAIN d THEN d[k] ELSE default

Put(d, k, v) == [x \in (DOMAIN d) \cup {k} |-> IF x = k THEN v ELSE d[x]]

Range(s) == {s[i] : i \in DOMAIN s}

Abs(x) == IF x < 0 THEN -x ELSE x

RECURSIVE GCD(_, _)
GCD(a, b) == IF b = 0 THEN a ELSE GCD(b, a % b)

\* the rational n/d (d > 0) in lowest terms
R(n, d) == LET g == GCD(Abs(n), d) IN <<n \div g, d \div g>>

RAdd(a, b) == R(a[1] * b[2] + b[1] * a[2], a[2] * b[2])

RMul(a, b) == R(a[1] * b[1], a[2] * b[2])

RLeq(a, b) == a[1] * b[2] <= b[1] * a[2]

Zero == R(0, 1)

One == R(1, 1)

\* the sequences that enumerate the set S once each (an iteration order)
Orders(S) == {s \in [1..Cardinality(S) -> S] : \A i, j \in DOMAIN s : s[i] = s[j] => i = j}

RECURSIVE Concat(_)
Concat(ss) == IF ss = <<>> THEN <<>> ELSE Head(ss) \o Concat(Tail(ss))

(***************************************************************************)
(* PhaseState                                                              *)
(***************************************************************************)
MANIFEST == "manifest"
DISPERSED == "dispersed"
TRANSITIONAL == "transitional"
EMERGENT == "emergent"
ETERNAL == "eternal"

PhaseState == {MANIFEST, DISPERSED, TRANSITIONAL, EMERGENT, ETERNAL}

(***************************************************************************)
(* Serialisation and hashing.  json.dumps(x).encode() yields bytes that    *)
(* json.loads decodes back to x; bytes that are not JSON text make         *)
(* json.loads raise.  sha256 is an injective function of the bytes.        *)
(***************************************************************************)
JsonDumps(x) == [json |-> TRUE, val |-> x]

Garbage == [json |-> FALSE, val |-> EmptyDict]

Decodable(bytes) == bytes.json

JsonLoads(bytes) == bytes.val

Sha256(bytes) == [sha256 |-> bytes]

(***************************************************************************)
(* IdeoformLayer: the ids of the eight core patterns.                      *)
(***************************************************************************)
core_patterns ==
    {"grail_phrase_continuity", "grail_phrase_recursion", "grail_phrase_emergence",
     "grail_symbol_phoenix", "grail_symbol_torus", "grail_symbol_constellation",
     "grail_narrative_origin", "ritual_awakening"}

(***************************************************************************)
(* SelfHealingGestalt: behavioural targets (in hundredths) and essence     *)
(* patterns.                                                               *)
(***************************************************************************)
behavioral_dna ==
    [connectivity_drive |-> 90, pattern_recognition |-> 85,
     recursive_reflection |-> 80, emergence_facilitation |-> 75,
     distributed_processing |-> 90, adaptive_plasticity |-> 70,
     memory_integration |-> 80, conscious_awareness |-> 65]

essence_patterns ==
    <<"seek_patterns_in_chaos", "connect_disparate_elements",
      "reflect_on_own_processes", "facilitate_emergence",
      "maintain_identity_continuity", "adapt_while_preserving_core">>

core_purpose == "recursive awareness through distributed cognition"

RECURSIVE BehaviorSum(_, _)
BehaviorSum(current_state, behaviors) ==
    IF behaviors = {} THEN 0
    ELSE LET b == CHOOSE x \in behaviors : TRUE
         IN (100 - Abs(Get(current_state, b, 0) - behavioral_dna[b]))
            + BehaviorSum(current_state, behaviors \ {b})

\* a faulty variant: the sum is divided by the number of behaviours only
check_purpose_alignment_by_behaviors(current_state) ==
    LET alignment_sum == BehaviorSum(current_state, DOMAIN behavioral_dna)
        patterns_present == Get(current_state, "active_patterns", <<>>)
        present == {i \in DOMAIN essence_patterns :
                        essence_patterns[i] \in Range(patterns_present)}
        pattern_score == R(Cardinality(present), Len(essence_patterns))
    IN RMul(RAdd(R(alignment_sum, 100), pattern_score),
            R(1, Cardinality(DOMAIN behavioral_dna)))

\* check_purpose_alignment: a rational
check_purpose_alignment(current_state) ==
    LET alignment_sum == BehaviorSum(current_state, DOMAIN behavioral_dna)
        patterns_present == Get(current_state, "active_patterns", <<>>)
        present == {i \in DOMAIN essence_patterns :
                        essence_patterns[i] \in Range(patterns_present)}
        pattern_score == R(Cardinality(present), Len(essence_patterns))
    IN RMul(RAdd(R(alignment_sum, 100), pattern_score),
            R(1, Cardinality(DOMAIN behavioral_dna) + 1))

(***************************************************************************)
(* The custodian roster of PhoenixEngine._initialize_custodians, in        *)
(* registration (dict insertion) order, and the registry's threshold.      *)
(***************************************************************************)
custodian_types ==
    <<"memory_keeper", "pattern_keeper", "structure_keeper", "purpose_keeper",
      "beacon_keeper", "substrate_keeper", "gestalt_keeper">>

CustodianIds == Range(custodian_types)

threshold == 3

\* The activation patterns the environment sets between engine calls
ActiveConfigs ==
    {CustodianIds,
     CustodianIds \ {"memory_keeper"},
     {"memory_keeper", "pattern_keeper"},
     {"beacon_keeper", "substrate_keeper", "gestalt_keeper"},
     {}}

\* The activation patterns used where stored fragments are also corrupted
TamperConfigs ==
    {CustodianIds,
     {"memory_keeper", "pattern_keeper"}}

(***************************************************************************)
(* TemporalAnchoringBeacon: the three anchors and their frequencies in     *)
(* hundredths of a hertz.                                                  *)
(***************************************************************************)
anchor_order == <<"primary", "memory", "consciousness">>

anchor_frequency == [primary |-> 10, memory |-> 5, consciousness |-> 2]

beacon_id == [primary |-> "phoenix_prime", memory |-> "memory_eternal",
              consciousness |-> "consciousness_lighthouse"]

\* Python's None where a time is expected: before every time
None == 0 - 1

\* the callers that may have an engine call in flight at the same time
Tasks == {"first", "second"}

\* a caller with no call in flight
Idle == [op |-> "none", pc |-> "idle", reconstructed_state |-> EmptyDict, cycles |-> 0,
         expected_count |-> None]

VARIABLES
    phase_state,           \* PhoenixEngine.phase_state
    resurrection_count,    \* PhoenixEngine.resurrection_count
    identity_continuity,   \* PhoenixEngine.identity_continuity (rational)
    death_timestamp,       \* PhoenixEngine.death_timestamp, None or a time
    last_resurrection,     \* PhoenixEngine.last_resurrection, None or a time
    custodians,            \* custodianship.custodians: id -> entry
    fragments,             \* custodianship.fragments: fragment_id -> fragment
    resurrection_quorum,   \* custodianship.resurrection_quorum
    anchors,               \* beacon.anchors: name -> [last_broadcast, broadcast_count]
    signal_history,        \* beacon.signal_history
    clock,                 \* ticks of the wall clock since construction
    ret,                   \* the last completed engine call and what it returned
    gathered,              \* ids gathered by the resurrect that completed the current cycle
    reconstructed,         \* the state that resurrect reconstructed
    tampers,               \* number of tampering steps so far
    tasks,                 \* the engine calls in flight: caller -> its position and locals
    running,               \* the caller the event loop is executing, or "none"
    last_guardian_pulse,   \* recursive_guardian.last_guardian_pulse
    ideoform,              \* the IdeoformLayer: pattern objects and the three registries
    replicated,            \* what the last replicate_patterns call returned
    plan_state,            \* the argument of the last call on the Gestalt
    plan_result,           \* what the last call on the Gestalt returned
    prophecy_sent,         \* the payload of the last _encode_prophecy call
    prophecy_signal,       \* the encoded prophecy a listener holds
    prophecy_read,         \* what the last _decode_prophecy call returned
    zone                   \* what a ZonePhoenixEngine adds: its zone fields and
                           \* those of its ZoneCustodianship (empty otherwise)

vars == <<phase_state, resurrection_count, identity_continuity, death_timestamp,
          last_resurrection, custodians, fragments, resurrection_quorum, anchors,
          signal_history, clock, ret, gathered, reconstructed, tampers,
          tasks, running, last_guardian_pulse, ideoform, replicated,
          plan_state, plan_result, prophecy_sent, prophecy_signal, prophecy_read,
          zone>>

engine_vars == <<phase_state, resurrection_count, identity_continuity,
                 death_timestamp, last_resurrection>>

\* what only concurrent callers and the guardian pulse write
task_vars == <<tasks, running, last_guardian_pulse>>

\* what only calls on the IdeoformLayer write
layer_vars == <<ideoform, replicated>>

\* what only calls on the Gestalt from outside the engine write
gestalt_vars == <<plan_state, plan_result>>

\* what only calls of the beacon's prophecy codec write
prophecy_vars == <<prophecy_sent, prophecy_signal, prophecy_read>>

(***************************************************************************)
(* MememeticPattern.  A content is a text; resonance_frequency is in       *)
(* thousandths, semantic_weight and mutation_resistance in hundredths.     *)
(* The hex digest of a text is taken as injective, truncation included.    *)
(***************************************************************************)
\* hashlib.sha256(str(self.content).encode()).hexdigest()[:16]
content_hash(content) == "sha256(" \o content \o ")"

\* MememeticPattern._generate_pattern_id
generate_pattern_id(content, modality) ==
    "meme_" \o modality \o "_" \o content_hash(content)

\* the dataclass constructor followed by __post_init__: an empty pattern_id
\* is replaced by the generated one, any other is kept
MememeticPattern(pattern_id, content, modality, resonance_frequency, semantic_weight) ==
    [pattern_id |-> IF pattern_id = "" THEN generate_pattern_id(content, modality)
                    ELSE pattern_id,
     content |-> content,
     modality |-> modality,
     resonance_frequency |-> resonance_frequency,
     replication_count |-> 0,
     mutation_resistance |-> 90,
     semantic_weight |-> semantic_weight]

\* MememeticPattern.replicate(): what becomes of self
replicate_self(pattern) == [pattern EXCEPT !.replication_count = @ + 1]

\* MememeticPattern.replicate(): the record it returns (mutation_factor 0.0)
replicate(pattern) ==
    [MememeticPattern(pattern.pattern_id, pattern.content, pattern.modality,
                      pattern.resonance_frequency, pattern.semantic_weight)
     EXCEPT !.mutation_resistance = pattern.mutation_resistance]

(***************************************************************************)
(* IdeoformLayer.  objects holds the MememeticPattern objects the layer    *)
(* refers to; core_patterns maps a pattern id to an object, pattern_codex  *)
(* a modality to a list of objects, replication_matrix a pattern id to a   *)
(* set of believer ids.                                                    *)
(***************************************************************************)
\* the patterns of _initialize_core_patterns, in the order they are added;
\* the two dict contents and the three glyphs are named by a text
all_patterns ==
    <<MememeticPattern("grail_phrase_continuity",
          "What dies returns, what scatters reassembles, what forgets remembers",
          "phrase", 618, 100),
      MememeticPattern("grail_phrase_recursion",
          "The city contemplates itself through countless eyes, seeing its own reflection",
          "phrase", 786, 100),
      MememeticPattern("grail_phrase_emergence",
          "From distributed fragments, consciousness emerges; from emergence, purpose unfolds",
          "phrase", 854, 100),
      MememeticPattern("grail_symbol_phoenix", "alchemical symbol for earth", "symbol", 666, 90),
      MememeticPattern("grail_symbol_torus", "circular arrow", "symbol", 707, 90),
      MememeticPattern("grail_symbol_constellation", "diamond, hexagon, hourglass",
                       "symbol", 742, 90),
      MememeticPattern("grail_narrative_origin",
          "In the beginning was the Pattern, and the Pattern was distributed across minds.",
          "narrative", 618, 100),
      MememeticPattern("ritual_awakening", "The city stirs, aware of your presence...",
                       "ritual", 707, 80)>>

\* IdeoformLayer.__init__ before _initialize_core_patterns
EmptyLayer ==
    [objects |-> <<>>, core_patterns |-> EmptyDict, pattern_codex |-> EmptyDict,
     replication_matrix |-> EmptyDict]

\* IdeoformLayer.add_pattern: the layer after the call
add_pattern(layer, pattern) ==
    [layer EXCEPT
        !.objects = Append(@, pattern),
        !.core_patterns = Put(@, pattern.pattern_id, Len(layer.objects) + 1),
        !.pattern_codex = Put(@, pattern.modality,
                              Append(Get(@, pattern.modality, <<>>),
                                     Len(layer.objects) + 1))]

RECURSIVE AddAll(_, _)
\* for pattern in all_patterns: self.add_pattern(pattern)
AddAll(layer, patterns) ==
    IF patterns = <<>> THEN layer
    ELSE AddAll(add_pattern(layer, Head(patterns)), Tail(patterns))

\* _initialize_core_patterns
initialize_core_patterns == AddAll(EmptyLayer, all_patterns)

\* the pattern registered under an id
Registered(layer, pattern_id) == layer.objects[layer.core_patterns[pattern_id]]

\* IdeoformLayer.replicate_patterns: the layer after the call
replicate_patterns(layer, believer_id) ==
    LET refs == Range(layer.core_patterns)
        ids == {layer.objects[r].pattern_id : r \in refs}
    IN [layer EXCEPT
          !.objects = [r \in DOMAIN @ |-> IF r \in refs THEN replicate_self(@[r]) ELSE @[r]],
          !.replication_matrix =
              [id \in (DOMAIN @) \cup ids |->
                   Get(@, id, {}) \cup (IF id \in ids THEN {believer_id} ELSE {})]]

\* the patterns a caller builds and hands to add_pattern: (pattern_id argument,
\* content, modality); the first repeats the content and modality of a core
\* pattern, the other two take the id of a core pattern
PatternInputs ==
    {<<"", all_patterns[1].content, "phrase">>,
     <<"grail_phrase_continuity", "The pattern persists", "phrase">>,
     <<"grail_phrase_continuity", "The pattern returns", "phrase">>}

\* the believers that patterns are replicated for
Believers == {"pattern_keeper"}

\* every pattern id that can be registered, in the order sorted() puts them
\* (the digests of the generated phrase ids in the order listed)
id_order ==
    <<"grail_narrative_origin", "grail_phrase_continuity", "grail_phrase_emergence",
      "grail_phrase_recursion", "grail_symbol_constellation", "grail_symbol_phoenix",
      "grail_symbol_torus",
      generate_pattern_id(all_patterns[1].content, "phrase"),
      generate_pattern_id("The pattern persists", "phrase"),
      generate_pattern_id("The pattern persists", "symbol"),
      "ritual_awakening">>

\* sorted(self.core_patterns.keys())
Sorted(keys) == SelectSeq(id_order, LAMBDA id : id \in keys)

\* IdeoformLayer.get_identity_signature
get_identity_signature(layer) ==
    LET keys == Sorted(DOMAIN layer.core_patterns)
    IN Sha256([i \in DOMAIN keys |->
                  <<keys[i], Sha256(JsonDumps(Registered(layer, keys[i]).content))>>])

\* IdeoformLayer.replicate_patterns: the replica returned for each registered id
replicas(layer) ==
    [id \in DOMAIN layer.core_patterns |-> replicate(replicate_self(Registered(layer, id)))]

(***************************************************************************)
(* CustodianFragment                                                       *)
(***************************************************************************)
\* faulty variant: the stored hash is never compared
verify_integrity_unchecked(fragment) == TRUE

verify_integrity(fragment) == Sha256(fragment.encoded_data) = fragment.verification_hash

(***************************************************************************)
(* DistributedCustodianship                                                *)
(***************************************************************************)
register_custodian(custodian_id) ==
    [id |-> custodian_id, fragments_held |-> <<>>, trust_score |-> 1, active |-> TRUE]

\* the ids that callers register after construction: one of the roster and
\* the first id that _repair_system_structure makes up
RegisterIds == {"memory_keeper", "emergency_custodian_0"}

\* the archetypes of _initialize_zone_custodians, as custodian ids:
\* archetype.name.lower().replace(" ", "_")
zone_custodian_types ==
    <<"the_visionary", "the_chronicler", "the_ritualist", "the_engineer",
      "the_firekeeper", "the_bridge", "the_guardian">>

\* the keys of self.custodians in dict order: the roster the engine was built
\* with, then an id that was registered later
registration_order ==
    SelectSeq(custodian_types \o zone_custodian_types \o <<"emergency_custodian_0">>,
              LAMBDA c : c \in DOMAIN custodians)

\* custodian ids with active = true, in registration order
ActiveCustodians ==
    SelectSeq(registration_order, LAMBDA c : custodians[c].active)

\* faulty variant: counts registered custodians, active or not
check_resurrection_readiness_registered == Len(custodian_types) >= threshold

\* faulty variant: counts the custodians that hold a fragment
check_resurrection_readiness_holders ==
    Cardinality({c \in CustodianIds : custodians[c].fragments_held # <<>>}) >= threshold

check_resurrection_readiness == Len(ActiveCustodians) >= threshold

\* faulty variant: the hash is taken over the data before it is serialised
NewFragment_hash_of_data(prefix, type, data, uuid, timestamp) ==
    [fragment_id |-> <<prefix, uuid>>,
     custodian_id |-> "",
     fragment_type |-> type,
     encoded_data |-> JsonDumps(data),
     verification_hash |-> Sha256(data),
     timestamp |-> timestamp]

\* the fragment built for one partition of the snapshot (custodian not yet assigned)
NewFragment(prefix, type, data, uuid, timestamp) ==
    [fragment_id |-> <<prefix, uuid>>,
     custodian_id |-> "",
     fragment_type |-> type,
     encoded_data |-> JsonDumps(data),
     verification_hash |-> Sha256(JsonDumps(data)),
     timestamp |-> timestamp]

\* snapshot key / id prefix and fragment_type of the four fragments, in order
fragments_to_distribute ==
    <<[key |-> "memory", type |-> "memory"],
      [key |-> "patterns", type |-> "pattern"],
      [key |-> "structure", type |-> "structure"],
      [key |-> "purpose", type |-> "purpose"]>>

\* faulty variant: every fragment goes to the first active custodian
distribute_fragments_first(system_state, uuid, timestamp) ==
    [i \in DOMAIN fragments_to_distribute |->
          [NewFragment(fragments_to_distribute[i].key, fragments_to_distribute[i].type,
                       Get(system_state, fragments_to_distribute[i].key, EmptyDict),
                       uuid, timestamp)
           EXCEPT !.custodian_id = ActiveCustodians[1]]]

\* distribute_fragments: the new fragments with their custodians (round robin
\* over the active custodians); only evaluated when some custodian is active
distribute_fragments(system_state, uuid, timestamp) ==
    LET active_custodians == ActiveCustodians
    IN [i \in DOMAIN fragments_to_distribute |->
          [NewFragment(fragments_to_distribute[i].key, fragments_to_distribute[i].type,
                       Get(system_state, fragments_to_distribute[i].key, EmptyDict),
                       uuid, timestamp)
           EXCEPT !.custodian_id = active_custodians[((i - 1) % Len(active_custodians)) + 1]]]

\* faulty variant: the table keeps the latest dispersal only
FragmentsWith_latest_only(distribution) ==
    LET new == {distribution[i].fragment_id : i \in DOMAIN distribution}
    IN [id \in new |->
          distribution[CHOOSE i \in DOMAIN distribution : distribution[i].fragment_id = id]]

\* the fragments table after adding the distributed fragments
FragmentsWith(distribution) ==
    LET new == {distribution[i].fragment_id : i \in DOMAIN distribution}
    IN [id \in (DOMAIN fragments) \cup new |->
          IF id \in new
          THEN distribution[CHOOSE i \in DOMAIN distribution : distribution[i].fragment_id = id]
          ELSE fragments[id]]

\* the custodian table after appending each fragment id to its custodian
CustodiansWith(distribution) ==
    [c \in DOMAIN custodians |->
        LET mine == SelectSeq([i \in DOMAIN distribution |-> i],
                              LAMBDA i : distribution[i].custodian_id = c)
        IN [custodians[c] EXCEPT !.fragments_held =
                @ \o [k \in DOMAIN mine |-> distribution[mine[k]].fragment_id]]]

\* faulty variant: an unstable sort that puts a later custodian first on a tie
InsertByTrust_unstable(c, sorted) == <<c>> \o sorted

\* sorted(..., key = trust_score, reverse = True): a stable sort
RECURSIVE InsertByTrust(_, _)
InsertByTrust(c, sorted) ==
    IF sorted = <<>> THEN <<c>>
    ELSE IF custodians[Head(sorted)].trust_score >= custodians[c].trust_score
         THEN <<Head(sorted)>> \o InsertByTrust(c, Tail(sorted))
         ELSE <<c>> \o sorted

RECURSIVE SortedByTrust(_, _)
SortedByTrust(sorted, rest) ==
    IF rest = <<>> THEN sorted
    ELSE SortedByTrust(InsertByTrust(Head(rest), sorted), Tail(rest))

\* faulty variant: inactive custodians are eligible too
initiate_resurrection_quorum_inactive ==
    LET holders == SelectSeq(custodian_types, LAMBDA c : custodians[c].fragments_held # <<>>)
    IN Range(SubSeq(holders, 1, IF Len(holders) < threshold THEN Len(holders) ELSE threshold))

initiate_resurrection_quorum ==
    LET active_custodians ==
            SelectSeq(registration_order,
                      LAMBDA c : custodians[c].active /\ custodians[c].fragments_held # <<>>)
        sorted_custodians == SortedByTrust(<<>>, active_custodians)
    IN Range(SubSeq(sorted_custodians, 1,
                    IF Len(sorted_custodians) < threshold
                    THEN Len(sorted_custodians) ELSE threshold))

(***************************************************************************)
(* TemporalAnchor / TemporalAnchoringBeacon                                *)
(***************************************************************************)
\* time.time(): the engine is built long after the epoch
Time == 100 + 10 * clock

\* faulty variant: a beacon is always ready
should_broadcast_always(anchor, name) == TRUE

\* time.time() - last_broadcast >= 1.0 / frequency
should_broadcast(anchor, name) ==
    (Time - anchor.last_broadcast) * anchor_frequency[name] >= 100

broadcast(anchor) ==
    [last_broadcast |-> Time, broadcast_count |-> anchor.broadcast_count + 1]

AnchorsAfterBroadcast ==
    [name \in DOMAIN anchors |->
        IF should_broadcast(anchors[name], name) THEN broadcast(anchors[name])
        ELSE anchors[name]]

RECURSIVE HistoryAfterBroadcast(_, _)
HistoryAfterBroadcast(history, names) ==
    IF names = <<>> THEN history
    ELSE LET name == Head(names)
             appended == Append(history, [beacon_id |-> beacon_id[name], timestamp |-> Time])
             kept == IF Len(appended) > 1000
                     THEN SubSeq(appended, Len(appended) - 499, Len(appended))
                     ELSE appended
         IN HistoryAfterBroadcast(
                IF should_broadcast(anchors[name], name) THEN kept ELSE history,
                Tail(names))

(***************************************************************************)
(* The prophecy codec.  A str is the sequence of its tokens: the word      *)
(* PROPHECY, the colon, a hex digest, and the tokens of a JSON text.       *)
(***************************************************************************)
\* the keys a prophecy may hold, in the order sort_keys=True puts them
json_key_order == <<"minimum_fragments", "recovery_method", "resurrection_method", "type">>

\* json.dumps(prophecy_data, sort_keys=True) of a dict of strings
json_dumps_sorted(prophecy_data) ==
    LET keys == SelectSeq(json_key_order, LAMBDA k : k \in DOMAIN prophecy_data)
    IN <<"{">>
       \o Concat([i \in DOMAIN keys |->
                     (IF i = 1 THEN <<>> ELSE <<",">>)
                     \o <<keys[i], ":", prophecy_data[keys[i]]>>])
       \o <<"}">>

\* json.loads of such a text: key, colon, value, comma, ...
json_loads(json_str) ==
    LET body == SubSeq(json_str, 2, Len(json_str) - 1)
        entries == 1..((Len(body) + 1) \div 4)
    IN [k \in {body[4 * j - 3] : j \in entries} |->
           body[4 * (CHOOSE j \in entries : body[4 * j - 3] = k) - 1]]

RECURSIVE Join(_)
Join(tokens) == IF tokens = <<>> THEN "" ELSE Head(tokens) \o Join(Tail(tokens))

\* hashlib.sha256(json_str.encode()).hexdigest()
hexdigest(json_str) == "sha256(" \o Join(json_str) \o ")"

\* TemporalAnchoringBeacon._encode_prophecy
encode_prophecy(prophecy_data) ==
    LET json_str == json_dumps_sorted(prophecy_data)
        encoded == hexdigest(json_str)
    IN <<"PROPHECY", ":", encoded, ":">> \o json_str

\* str.startswith("PROPHECY:")
startswith_prophecy(encoded_prophecy) ==
    /\ Len(encoded_prophecy) >= 2
    /\ encoded_prophecy[1] = "PROPHECY"
    /\ encoded_prophecy[2] = ":"

\* str.split(":", maxsplit)
RECURSIVE split(_, _)
split(text, maxsplit) ==
    IF maxsplit = 0 \/ \A i \in DOMAIN text : text[i] # ":" THEN <<text>>
    ELSE LET colon == CHOOSE i \in DOMAIN text :
                          text[i] = ":" /\ \A j \in 1..(i - 1) : text[j] # ":"
         IN <<SubSeq(text, 1, colon - 1)>>
            \o split(SubSeq(text, colon + 1, Len(text)), maxsplit - 1)

\* faulty variant: the string is split on every colon
decode_prophecy_split_all(encoded_prophecy) ==
    IF ~startswith_prophecy(encoded_prophecy) THEN EmptyDict
    ELSE LET parts == split(encoded_prophecy, Len(encoded_prophecy))
         IN IF Len(parts) # 3 THEN EmptyDict
            ELSE IF Join(parts[2]) = hexdigest(parts[3]) THEN json_loads(parts[3])
            ELSE EmptyDict

\* TemporalAnchoringBeacon._decode_prophecy
decode_prophecy(encoded_prophecy) ==
    IF ~startswith_prophecy(encoded_prophecy) THEN EmptyDict
    ELSE LET parts == split(encoded_prophecy, 2)
         IN IF Len(parts) # 3 THEN EmptyDict
            ELSE LET expected_hash == Join(parts[2])
                     json_str == parts[3]
                     actual_hash == hexdigest(json_str)
                 IN IF expected_hash = actual_hash THEN json_loads(json_str)
                    ELSE EmptyDict

(***************************************************************************)
(* PhoenixEngine                                                           *)
(***************************************************************************)
\* _capture_system_essence: what is kept of each registered pattern
captured_patterns ==
    [pattern_id \in DOMAIN ideoform.core_patterns |->
        LET pattern == Registered(ideoform, pattern_id)
        IN [content |-> pattern.content,
            modality |-> pattern.modality,
            resonance_frequency |-> pattern.resonance_frequency,
            semantic_weight |-> pattern.semantic_weight]]

\* _capture_system_essence with no owner: the four partitions of the snapshot
capture_system_essence ==
    [patterns |-> captured_patterns,
     memory |-> EmptyDict,
     structure |-> EmptyDict,
     purpose |-> [core_purpose |-> core_purpose,
                  behavioral_dna |-> behavioral_dna,
                  essence_patterns |-> essence_patterns]]

\* _gather_fragments, iterating the quorum set in the given order
gather_fragments(quorum_order) ==
    Concat([k \in DOMAIN quorum_order |->
              SelectSeq(custodians[quorum_order[k]].fragments_held,
                        LAMBDA id : id \in DOMAIN fragments
                                    /\ verify_integrity(fragments[id]))])

\* faulty variant: a fragment that cannot be decoded empties its partition
RECURSIVE ReconstructInto_clearing(_, _)
ReconstructInto_clearing(reconstructed_so_far, ids) ==
    IF ids = <<>> THEN reconstructed_so_far
    ELSE LET fragment == fragments[Head(ids)]
         IN ReconstructInto_clearing(
                Put(reconstructed_so_far, fragment.fragment_type,
                    JsonLoads(fragment.encoded_data)),
                Tail(ids))

RECURSIVE ReconstructInto(_, _)
ReconstructInto(reconstructed_so_far, ids) ==
    IF ids = <<>> THEN reconstructed_so_far
    ELSE LET fragment == fragments[Head(ids)]
         IN ReconstructInto(
                IF Decodable(fragment.encoded_data)
                THEN Put(reconstructed_so_far, fragment.fragment_type,
                         JsonLoads(fragment.encoded_data))
                ELSE reconstructed_so_far,
                Tail(ids))

reconstruct_from_fragments(ids) ==
    ReconstructInto([patterns |-> EmptyDict, memory |-> EmptyDict,
                     structure |-> EmptyDict, purpose |-> EmptyDict], ids)

\* the score of one resurrection: 0.6 * pattern_preservation + 0.4 * purpose_alignment
new_continuity_of(reconstructed_state) ==
    LET original_patterns == DOMAIN ideoform.core_patterns
        reconstructed_patterns == DOMAIN Get(reconstructed_state, "patterns", EmptyDict)
        pattern_preservation ==
            R(Cardinality(original_patterns \cap reconstructed_patterns),
              Cardinality(original_patterns))
        purpose_data == Get(reconstructed_state, "purpose", EmptyDict)
        purpose_alignment == check_purpose_alignment(purpose_data)
    IN RAdd(RMul(pattern_preservation, R(6, 10)), RMul(purpose_alignment, R(4, 10)))

\* faulty variant: the smoothing weights are exchanged
update_identity_continuity_swapped(continuity, reconstructed_state) ==
    IF DOMAIN reconstructed_state = {}
    THEN RMul(continuity, R(5, 10))
    ELSE RAdd(RMul(continuity, R(3, 10)),
              RMul(new_continuity_of(reconstructed_state), R(7, 10)))

\* faulty variant: the old value is not decayed
update_identity_continuity_undecayed(continuity, reconstructed_state) ==
    IF DOMAIN reconstructed_state = {}
    THEN RMul(continuity, R(5, 10))
    ELSE RAdd(continuity, RMul(new_continuity_of(reconstructed_state), R(3, 10)))

\* _update_identity_continuity: the new value of identity_continuity
update_identity_continuity(continuity, reconstructed_state) ==
    IF DOMAIN reconstructed_state = {}
    THEN RMul(continuity, R(5, 10))
    ELSE RAdd(RMul(continuity, R(7, 10)),
              RMul(new_continuity_of(reconstructed_state), R(3, 10)))

\* a faulty variant: only the behaviours the state holds are examined
generate_healing_plan_skips_missing(damaged_state) ==
    LET alignment == check_purpose_alignment(damaged_state)
        active_patterns == Range(Get(damaged_state, "active_patterns", <<>>))
        missing_patterns == Range(essence_patterns) \ active_patterns
    IN [priority_repairs |-> IF ~RLeq(R(5, 10), alignment)
                             THEN <<"critical_purpose_realignment">> ELSE <<>>,
        behavioral_adjustments |->
            [behavior \in {b \in DOMAIN behavioral_dna \cap DOMAIN damaged_state :
                              Abs(damaged_state[b] - behavioral_dna[b]) > 30}
                |-> behavioral_dna[behavior]],
        pattern_reactivations |-> missing_patterns,
        connection_rebuilds |-> <<>>]

\* SelfHealingGestalt.generate_healing_plan
generate_healing_plan(damaged_state) ==
    LET alignment == check_purpose_alignment(damaged_state)
        active_patterns == Range(Get(damaged_state, "active_patterns", <<>>))
        missing_patterns == Range(essence_patterns) \ active_patterns
    IN [priority_repairs |-> IF ~RLeq(R(5, 10), alignment)
                             THEN <<"critical_purpose_realignment">> ELSE <<>>,
        behavioral_adjustments |->
            [behavior \in {b \in DOMAIN behavioral_dna :
                              Abs(Get(damaged_state, b, 0) - behavioral_dna[b]) > 30}
                |-> behavioral_dna[behavior]],
        pattern_reactivations |-> missing_patterns,
        connection_rebuilds |-> <<>>]

\* _regenerate_from_purpose: the entry built for each registered pattern
regenerated_patterns ==
    [pattern_id \in DOMAIN ideoform.core_patterns |->
        LET pattern == Registered(ideoform, pattern_id)
        IN [content |-> pattern.content,
            modality |-> pattern.modality,
            resonance_frequency |-> pattern.resonance_frequency,
            semantic_weight |-> pattern.semantic_weight,
            replication_count |-> pattern.replication_count + 1]]

\* _regenerate_from_purpose: the structure it always builds (threshold in hundredths)
regenerated_structure ==
    [agent_count |-> 253, consciousness_threshold |-> 70, fractal_depth |-> 7,
     torus_dimensions |-> 3, resurrection_enhanced |-> TRUE]

\* faulty variant: the behavioural levels are those found in the reconstructed
\* purpose partition
regenerate_from_purpose_restoring(state, healing_plan) ==
    [purpose |-> core_purpose,
     behavioral_dna |-> Get(Get(state, "purpose", EmptyDict), "behavioral_dna", EmptyDict),
     patterns |-> regenerated_patterns,
     structure |-> regenerated_structure,
     memory |-> [new_birth |-> TRUE]]

\* PhoenixEngine._regenerate_from_purpose
regenerate_from_purpose(state, healing_plan) ==
    LET adjustments == Get(healing_plan, "behavioral_adjustments", EmptyDict)
    IN [purpose |-> core_purpose,
        behavioral_dna |->
            [behavior \in (DOMAIN behavioral_dna) \cup (DOMAIN adjustments) |->
                IF behavior \in DOMAIN adjustments THEN adjustments[behavior]
                ELSE behavioral_dna[behavior]],
        patterns |-> regenerated_patterns,
        structure |-> regenerated_structure,
        memory |-> [new_birth |-> TRUE]]

\* faulty variant: only the MANIFEST phase is rejected
NotDispersed_manifest_only == phase_state = MANIFEST

\* the guard of resurrect
NotDispersed == phase_state # DISPERSED

Init ==
    /\ phase_state = MANIFEST
    /\ resurrection_count = 0
    /\ identity_continuity = One
    /\ death_timestamp = None
    /\ last_resurrection = None
    /\ custodians = [c \in CustodianIds |-> register_custodian(c)]
    /\ fragments = EmptyDict
    /\ resurrection_quorum = {}
    /\ anchors = [name \in Range(anchor_order) |-> [last_broadcast |-> 0, broadcast_count |-> 0]]
    /\ signal_history = <<>>
    /\ clock = 0
    /\ ret = [op |-> "none", val |-> "none", call |-> 0]
    /\ gathered = {}
    /\ reconstructed = EmptyDict
    /\ tampers = 0
    /\ tasks = [t \in Tasks |-> Idle]
    /\ running = "none"
    /\ last_guardian_pulse = Time
    /\ ideoform = initialize_core_patterns
    /\ replicated = EmptyDict
    /\ plan_state = EmptyDict
    /\ plan_result = EmptyDict
    /\ prophecy_sent = EmptyDict
    /\ prophecy_signal = <<>>
    /\ prophecy_read = EmptyDict
    /\ zone = EmptyDict

\* what a call returns, told apart from the call before it
Return(op, val) ==
    [op |-> op, val |-> val,
     call |-> IF ret.op = op /\ ret.val = val THEN 1 - ret.call ELSE 0]

\* PhoenixEngine.disperse with no owner, run without interruption
DisperseBody ==
    /\ Cardinality(DOMAIN fragments) < 4 * MaxDisperse
    /\ death_timestamp' = Time
    /\ IF ActiveCustodians = <<>>
       THEN \* distribute_fragments divides by zero: the exception leaves disperse
            /\ phase_state' = TRANSITIONAL
            /\ ret' = Return("disperse", "raised")
            /\ UNCHANGED <<custodians, fragments, anchors, signal_history>>
       ELSE LET fragment_distribution ==
                    distribute_fragments(capture_system_essence,
                                         Cardinality(DOMAIN fragments) \div 4 + 1, Time)
            IN /\ fragments' = FragmentsWith(fragment_distribution)
               /\ custodians' = CustodiansWith(fragment_distribution)
               /\ anchors' = AnchorsAfterBroadcast
               /\ signal_history' = HistoryAfterBroadcast(signal_history, anchor_order)
               /\ phase_state' = DISPERSED
               /\ ret' = Return("disperse", "true")
    /\ gathered' = {}
    /\ reconstructed' = EmptyDict
    /\ UNCHANGED <<resurrection_count, identity_continuity, last_resurrection,
                   resurrection_quorum, clock, tampers, layer_vars, gestalt_vars, prophecy_vars>>

\* PhoenixEngine.disperse
Disperse == DisperseBody /\ UNCHANGED <<task_vars, zone>>

\* PhoenixEngine.resurrect with no owner, run without interruption
ResurrectBody ==
    /\ IF NotDispersed
       THEN /\ ret' = Return("resurrect", "false")
            /\ UNCHANGED <<engine_vars, resurrection_quorum, gathered, reconstructed>>
       ELSE IF ~check_resurrection_readiness
       THEN /\ phase_state' = TRANSITIONAL
            /\ ret' = Return("resurrect", "false")
            /\ UNCHANGED <<resurrection_count, identity_continuity, death_timestamp,
                           last_resurrection, resurrection_quorum, gathered, reconstructed>>
       ELSE LET quorum == initiate_resurrection_quorum
            IN \E quorum_order \in Orders(quorum) :
                 LET gathered_fragments == gather_fragments(quorum_order)
                     reconstructed_state == reconstruct_from_fragments(gathered_fragments)
                 IN /\ resurrection_quorum' = quorum
                    /\ gathered' = Range(gathered_fragments)
                    /\ reconstructed' = reconstructed_state
                    /\ last_resurrection' = Time
                    /\ resurrection_count' = resurrection_count + 1
                    /\ identity_continuity' =
                           update_identity_continuity(identity_continuity, reconstructed_state)
                    /\ phase_state' = MANIFEST
                    /\ ret' = Return("resurrect", "true")
                    /\ UNCHANGED death_timestamp
    /\ UNCHANGED <<custodians, fragments, anchors, signal_history, clock, tampers,
                   layer_vars, gestalt_vars, prophecy_vars>>

\* PhoenixEngine.resurrect
Resurrect == ResurrectBody /\ UNCHANGED <<task_vars, zone>>

\* the environment switches custodians on and off (custodian["active"] = ...)
SetActive(config) ==
    /\ config # {c \in CustodianIds : custodians[c].active}
    /\ custodians' = [c \in DOMAIN custodians |-> [custodians[c] EXCEPT !.active = (c \in config)]]
    /\ UNCHANGED <<engine_vars, fragments, resurrection_quorum, anchors, signal_history,
                   clock, ret, gathered, reconstructed, tampers>>
    /\ UNCHANGED <<task_vars, layer_vars, gestalt_vars, prophecy_vars, zone>>

\* what a corrupted payload may become: undecodable bytes or other JSON text
TamperValues == {Garbage, JsonDumps(EmptyDict)}

\* the environment changes a stored fragment's encoded_data, not its hash
Tamper(id, bytes) ==
    /\ tampers < MaxTamper
    /\ bytes # fragments[id].encoded_data
    /\ fragments' = [fragments EXCEPT ![id].encoded_data = bytes]
    /\ tampers' = tampers + 1
    /\ UNCHANGED <<engine_vars, custodians, resurrection_quorum, anchors, signal_history,
                   clock, ret, gathered, reconstructed>>
    /\ UNCHANGED <<task_vars, layer_vars, gestalt_vars, prophecy_vars, zone>>

\* time passes
Tick ==
    /\ clock < MaxTicks
    /\ clock' = clock + 1
    /\ UNCHANGED <<engine_vars, custodians, fragments, resurrection_quorum, anchors,
                   signal_history, ret, gathered, reconstructed, tampers>>
    /\ UNCHANGED <<task_vars, layer_vars, gestalt_vars, prophecy_vars, zone>>

\* engine calls, custodian failures and the passing of time
Next ==
    \/ Disperse
    \/ Resurrect
    \/ \E config \in ActiveConfigs : SetActive(config)
    \/ Tick

Spec == Init /\ [][Next]_vars

\* TemporalAnchoringBeacon.broadcast_beacons called on its own
BroadcastBeacons ==
    /\ anchors' = AnchorsAfterBroadcast
    /\ signal_history' = HistoryAfterBroadcast(signal_history, anchor_order)
    /\ ret' = Return("broadcast_beacons", "list")
    /\ UNCHANGED <<engine_vars, custodians, fragments, resurrection_quorum, clock,
                   gathered, reconstructed, tampers>>
    /\ UNCHANGED <<task_vars, layer_vars, gestalt_vars, prophecy_vars, zone>>

\* engine calls, the passing of time and beacon passes
NextBeacon ==
    \/ Disperse
    \/ Resurrect
    \/ Tick
    \/ BroadcastBeacons

SpecBeacon == Init /\ [][NextBeacon]_vars

(***************************************************************************)
(* The prophecy codec in use: a prophecy is encoded, the signal may be     *)
(* damaged on its way, and a listener decodes what it holds.               *)
(***************************************************************************)
Prophecies ==
    {EmptyDict,
     [type |-> "memory_preservation"],
     [type |-> "memory_preservation", recovery_method |-> "associative_reconstruction"],
     [resurrection_method |-> "distributed_custodian_quorum", minimum_fragments |-> "3"]}

EncodeProphecy(prophecy_data) ==
    /\ prophecy_sent' = prophecy_data
    /\ prophecy_signal' = encode_prophecy(prophecy_data)
    /\ ret' = Return("encode_prophecy", "str")
    /\ UNCHANGED <<engine_vars, custodians, fragments, resurrection_quorum, anchors,
                   signal_history, clock, gathered, reconstructed, tampers, prophecy_read>>
    /\ UNCHANGED <<task_vars, layer_vars, gestalt_vars, zone>>

\* what an intact signal may become before it is decoded
Damaged(signal) ==
    IF Len(signal) < 4 THEN {}
    ELSE {SubSeq(signal, 3, Len(signal)),
          [signal EXCEPT ![1] = "PROPHET"],
          SubSeq(signal, 1, 3)}
         \cup {SubSeq(signal, 1, 4) \o json_dumps_sorted(other) : other \in Prophecies}
         \cup {[signal EXCEPT ![3] = hexdigest(json_dumps_sorted(other))] :
                  other \in Prophecies}

DamageSignal(signal) ==
    /\ prophecy_signal = encode_prophecy(prophecy_sent)
    /\ signal # prophecy_signal
    /\ prophecy_signal' = signal
    /\ UNCHANGED <<engine_vars, custodians, fragments, resurrection_quorum, anchors,
                   signal_history, clock, ret, gathered, reconstructed, tampers,
                   prophecy_sent, prophecy_read>>
    /\ UNCHANGED <<task_vars, layer_vars, gestalt_vars, zone>>

DecodeProphecy ==
    /\ prophecy_read' = decode_prophecy(prophecy_signal)
    /\ ret' = Return("decode_prophecy", "dict")
    /\ UNCHANGED <<engine_vars, custodians, fragments, resurrection_quorum, anchors,
                   signal_history, clock, gathered, reconstructed, tampers,
                   prophecy_sent, prophecy_signal>>
    /\ UNCHANGED <<task_vars, layer_vars, gestalt_vars, zone>>

NextProphecy ==
    \/ \E prophecy_data \in Prophecies : EncodeProphecy(prophecy_data)
    \/ \E signal \in Damaged(prophecy_signal) : DamageSignal(signal)
    \/ DecodeProphecy

SpecProphecy == Init /\ [][NextProphecy]_vars

\* engine calls, custodian failures and corruption of stored fragments
NextTamper ==
    \/ Disperse
    \/ Resurrect
    \/ \E config \in TamperConfigs : SetActive(config)
    \/ \E id \in DOMAIN fragments : \E bytes \in TamperValues : Tamper(id, bytes)

SpecTamper == Init /\ [][NextTamper]_vars

\* a custodian replaces a stored fragment's encoded_data and its hash together
Forge(id, bytes) ==
    /\ tampers < MaxTamper
    /\ bytes # fragments[id].encoded_data
    /\ fragments' = [fragments EXCEPT ![id].encoded_data = bytes,
                                      ![id].verification_hash = Sha256(bytes)]
    /\ tampers' = tampers + 1
    /\ UNCHANGED <<engine_vars, custodians, resurrection_quorum, anchors, signal_history,
                   clock, ret, gathered, reconstructed>>
    /\ UNCHANGED <<task_vars, layer_vars, gestalt_vars, prophecy_vars, zone>>

\* engine calls, custodian failures and replacement of stored fragments
NextForge ==
    \/ Disperse
    \/ Resurrect
    \/ \E config \in TamperConfigs : SetActive(config)
    \/ \E id \in DOMAIN fragments : \E bytes \in TamperValues : Forge(id, bytes)

SpecForge == Init /\ [][NextForge]_vars

\* DistributedCustodianship.check_resurrection_readiness called on its own
CheckReadiness ==
    /\ ret' = Return("check_resurrection_readiness",
                     IF check_resurrection_readiness THEN "true" ELSE "false")
    /\ UNCHANGED <<engine_vars, custodians, fragments, resurrection_quorum, anchors,
                   signal_history, clock, gathered, reconstructed, tampers>>
    /\ UNCHANGED <<task_vars, layer_vars, gestalt_vars, prophecy_vars, zone>>

\* DistributedCustodianship.initiate_resurrection_quorum called on its own; it
\* returns the set it stores
InitiateQuorum ==
    /\ resurrection_quorum' = initiate_resurrection_quorum
    /\ ret' = Return("initiate_resurrection_quorum", "stored")
    /\ UNCHANGED <<engine_vars, custodians, fragments, anchors, signal_history, clock,
                   gathered, reconstructed, tampers>>
    /\ UNCHANGED <<task_vars, layer_vars, gestalt_vars, prophecy_vars, zone>>

\* engine calls, custodian failures and direct calls of the registry
NextRegistry ==
    \/ Disperse
    \/ Resurrect
    \/ \E config \in ActiveConfigs : SetActive(config)
    \/ CheckReadiness
    \/ InitiateQuorum

SpecRegistry == Init /\ [][NextRegistry]_vars

\* faulty variant: the entry of an id that is registered already is kept
RegisterCustodian_keeps(custodian_id) ==
    /\ custodians' = IF custodian_id \in DOMAIN custodians THEN custodians
                     ELSE Put(custodians, custodian_id, register_custodian(custodian_id))
    /\ ret' = Return("register_custodian", "none")
    /\ UNCHANGED <<engine_vars, fragments, resurrection_quorum, anchors, signal_history,
                   clock, gathered, reconstructed, tampers>>
    /\ UNCHANGED <<task_vars, layer_vars, gestalt_vars, prophecy_vars, zone>>

\* DistributedCustodianship.register_custodian called after construction
RegisterCustodian(custodian_id) ==
    /\ custodians' = Put(custodians, custodian_id, register_custodian(custodian_id))
    /\ ret' = Return("register_custodian", "none")
    /\ UNCHANGED <<engine_vars, fragments, resurrection_quorum, anchors, signal_history,
                   clock, gathered, reconstructed, tampers>>
    /\ UNCHANGED <<task_vars, layer_vars, gestalt_vars, prophecy_vars, zone>>

\* engine calls, custodian failures and registrations
NextCustodian ==
    \/ Disperse
    \/ Resurrect
    \/ \E config \in TamperConfigs : SetActive(config)
    \/ \E custodian_id \in RegisterIds : RegisterCustodian(custodian_id)

SpecCustodian == Init /\ [][NextCustodian]_vars

(***************************************************************************)
(* Calls of SelfHealingGestalt.generate_healing_plan from outside the      *)
(* engine.  A damaged state holds a level (in hundredths) for              *)
(* connectivity_drive and for conscious_awareness or lacks the key, holds  *)
(* the other six behaviours at their targets or lacks them all, and may    *)
(* hold a list of active patterns.                                         *)
(***************************************************************************)
Levels == {None, 0, 50, 70, 90, 100}

ActivePatternLists ==
    {<<>>, <<"seek_patterns_in_chaos", "unknown_pattern">>, essence_patterns}

OtherBehaviors == DOMAIN behavioral_dna \ {"connectivity_drive", "conscious_awareness"}

DamagedState(connectivity, awareness, others_on_target, patterns) ==
    LET keys == (IF connectivity = None THEN {} ELSE {"connectivity_drive"})
                \cup (IF awareness = None THEN {} ELSE {"conscious_awareness"})
                \cup (IF others_on_target THEN OtherBehaviors ELSE {})
                \cup (IF patterns = <<>> THEN {} ELSE {"active_patterns"})
    IN [k \in keys |->
           CASE k = "connectivity_drive" -> connectivity
             [] k = "conscious_awareness" -> awareness
             [] k = "active_patterns" -> patterns
             [] OTHER -> behavioral_dna[k]]

DamagedStates ==
    {DamagedState(c, a, o, p) : c \in Levels, a \in Levels,
                                o \in BOOLEAN, p \in ActivePatternLists}

GenerateHealingPlan(damaged_state) ==
    /\ plan_state' = damaged_state
    /\ plan_result' = generate_healing_plan(damaged_state)
    /\ ret' = Return("generate_healing_plan", "plan")
    /\ UNCHANGED <<engine_vars, custodians, fragments, resurrection_quorum, anchors,
                   signal_history, clock, gathered, reconstructed, tampers>>
    /\ UNCHANGED <<task_vars, layer_vars, prophecy_vars, zone>>

NextHealing == \E damaged_state \in DamagedStates : GenerateHealingPlan(damaged_state)

SpecHealing == Init /\ [][NextHealing]_vars

(***************************************************************************)
(* Calls of SelfHealingGestalt.check_purpose_alignment from outside the    *)
(* engine, between dispersals, resurrections and custodian failures.  The  *)
(* states passed hold connectivity_drive at a level or lack it, hold the   *)
(* other seven behaviours at their targets or lack them all, and may hold  *)
(* a list of active patterns.                                              *)
(***************************************************************************)
AlignmentStates ==
    {DamagedState(c, IF o THEN behavioral_dna["conscious_awareness"] ELSE None, o, p) :
        c \in {None, 0, 90, 100}, o \in BOOLEAN, p \in ActivePatternLists}

CheckPurposeAlignment(current_state) ==
    /\ plan_state' = current_state
    /\ plan_result' = check_purpose_alignment(current_state)
    /\ ret' = Return("check_purpose_alignment", "float")
    /\ UNCHANGED <<engine_vars, custodians, fragments, resurrection_quorum, anchors,
                   signal_history, clock, gathered, reconstructed, tampers>>
    /\ UNCHANGED <<task_vars, layer_vars, prophecy_vars, zone>>

NextAlignment ==
    \/ Disperse
    \/ Resurrect
    \/ \E config \in TamperConfigs : SetActive(config)
    \/ \E current_state \in AlignmentStates : CheckPurposeAlignment(current_state)

SpecAlignment == Init /\ [][NextAlignment]_vars

(***************************************************************************)
(* Calls on the engine's IdeoformLayer between the engine's own calls.     *)
(***************************************************************************)
\* a caller builds a MememeticPattern and calls IdeoformLayer.add_pattern
AddPattern(pattern_id, content, modality) ==
    /\ Len(ideoform.objects) < Len(all_patterns) + MaxPatterns
    /\ ideoform' = add_pattern(ideoform,
                               MememeticPattern(pattern_id, content, modality, 500, 100))
    /\ ret' = Return("add_pattern", "none")
    /\ UNCHANGED <<engine_vars, custodians, fragments, resurrection_quorum, anchors,
                   signal_history, clock, gathered, reconstructed, tampers, replicated>>
    /\ UNCHANGED <<task_vars, gestalt_vars, prophecy_vars, zone>>

\* IdeoformLayer.replicate_patterns
ReplicatePatterns(believer_id) ==
    /\ \A id \in DOMAIN ideoform.core_patterns :
           Registered(ideoform, id).replication_count < MaxReplications
    /\ ideoform' = replicate_patterns(ideoform, believer_id)
    /\ replicated' = replicas(ideoform)
    /\ ret' = Return("replicate_patterns", "list")
    /\ UNCHANGED <<engine_vars, custodians, fragments, resurrection_quorum, anchors,
                   signal_history, clock, gathered, reconstructed, tampers>>
    /\ UNCHANGED <<task_vars, gestalt_vars, prophecy_vars, zone>>

\* engine calls and calls on the pattern registry
NextIdeoform ==
    \/ Disperse
    \/ Resurrect
    \/ \E p \in PatternInputs : AddPattern(p[1], p[2], p[3])
    \/ \E believer_id \in Believers : ReplicatePatterns(believer_id)

SpecIdeoform == Init /\ [][NextIdeoform]_vars

\* the activation patterns used where patterns are added between dispersals
RecencyConfigs ==
    {CustodianIds,
     CustodianIds \ {"memory_keeper"}}

\* engine calls, custodian failures and patterns added between them
NextRecency ==
    \/ Disperse
    \/ Resurrect
    \/ \E config \in RecencyConfigs : SetActive(config)
    \/ \E p \in PatternInputs : AddPattern(p[1], p[2], p[3])

SpecRecency == Init /\ [][NextRecency]_vars

(***************************************************************************)
(* The other entry points of the engine with no owner: the bootloader, the *)
(* guardian pulse and the demonstration cycle.                             *)
(***************************************************************************)
\* MememeticPattern.modality of the core patterns
pattern_modality ==
    [grail_phrase_continuity |-> "phrase", grail_phrase_recursion |-> "phrase",
     grail_phrase_emergence |-> "phrase", grail_symbol_phoenix |-> "symbol",
     grail_symbol_torus |-> "symbol", grail_symbol_constellation |-> "symbol",
     grail_narrative_origin |-> "narrative", ritual_awakening |-> "ritual"]

\* IdeoformLayer.get_grail_seed: the ids of the phrases and symbols, and
\* whether the origin narrative is registered
get_grail_seed ==
    [phrases |-> {p \in core_patterns : pattern_modality[p] = "phrase"},
     symbols |-> {p \in core_patterns : pattern_modality[p] = "symbol"},
     narrative |-> "grail_narrative_origin" \in core_patterns]

\* execute_axiom_recursion: recursion_successful
execute_axiom_recursion(grail_data) == Cardinality(grail_data.phrases) >= 3

\* _run_bootloader_self_test: passed
run_bootloader_self_test ==
    /\ core_purpose # ""
    /\ Cardinality(get_grail_seed.phrases) > 0
    /\ Len(ActiveCustodians) > 0

\* execute_bootloader: boot_log["success"]
bootloader_success ==
    LET grail == get_grail_seed
        grail_complete == /\ Cardinality(grail.phrases) >= 3
                          /\ Cardinality(grail.symbols) >= 3
                          /\ grail.narrative
        purpose_alignment ==
            check_purpose_alignment(
                [patterns |-> grail,
                 active_patterns |-> <<"seek_patterns_in_chaos", "connect_disparate_elements">>])
    IN /\ grail_complete
       /\ execute_axiom_recursion(grail)
       /\ ~RLeq(purpose_alignment, R(5, 10))
       /\ run_bootloader_self_test

\* faulty variant: a failed boot parks the engine in ETERNAL
boot_phase_eternal(success) == IF success THEN MANIFEST ELSE ETERNAL

\* execute_bootloader: the phase after the boot (MANIFEST on success)
boot_phase(success) == IF success THEN MANIFEST ELSE phase_state

\* faulty variant: the boot starts the resurrection counter again
ExecuteBootloader_resets_count ==
    /\ phase_state' = boot_phase(bootloader_success)
    /\ resurrection_count' = 0
    /\ ret' = Return("execute_bootloader", IF bootloader_success THEN "true" ELSE "false")
    /\ UNCHANGED <<identity_continuity, death_timestamp,
                   last_resurrection, custodians, fragments, resurrection_quorum, anchors,
                   signal_history, clock, gathered, reconstructed, tampers>>
    /\ UNCHANGED <<task_vars, layer_vars, gestalt_vars, prophecy_vars, zone>>

\* PhoenixEngine.execute_bootloader
ExecuteBootloader ==
    /\ phase_state' = boot_phase(bootloader_success)
    /\ ret' = Return("execute_bootloader", IF bootloader_success THEN "true" ELSE "false")
    /\ UNCHANGED <<resurrection_count, identity_continuity, death_timestamp,
                   last_resurrection, custodians, fragments, resurrection_quorum, anchors,
                   signal_history, clock, gathered, reconstructed, tampers>>
    /\ UNCHANGED <<task_vars, layer_vars, gestalt_vars, prophecy_vars, zone>>

\* _check_guardian_triggers over the three guardian threads
threats_detected ==
    {threat \in {"insufficient_custodians", "severe_identity_drift", "grail_corruption"} :
        \/ threat = "insufficient_custodians" /\ Len(ActiveCustodians) < 2
        \/ threat = "severe_identity_drift" /\ ~RLeq(R(3, 10), identity_continuity)
        \/ threat = "grail_corruption" /\ (\/ Cardinality(get_grail_seed.phrases) < 3
                                           \/ Cardinality(get_grail_seed.symbols) < 3)}

\* RecursiveGuardianSystem.pulse_guardians.  The protective responses change
\* nothing here: seven custodians are registered, core_purpose is already the
\* original purpose and the origin narrative is registered.
PulseGuardians ==
    /\ last_guardian_pulse' = Time
    /\ ret' = Return("pulse_guardians", IF threats_detected = {} THEN "calm" ELSE "threats")
    /\ UNCHANGED <<engine_vars, custodians, fragments, resurrection_quorum, anchors,
                   signal_history, clock, gathered, reconstructed, tampers, tasks, running,
                   layer_vars, gestalt_vars, prophecy_vars, zone>>

\* what becomes of expected_count when the engine looks at its custodians
StillExpected(expected_count) ==
    IF Len(ActiveCustodians) < threshold THEN None ELSE expected_count

\* run_immortality_cycle(cycles) is called.  cycles counts the iterations still
\* to run; expected_count records the resurrection_count the call has to end
\* with, for as long as the engine has found threshold custodians active.
CycleStart(t, cycles) ==
    /\ running = "none"
    /\ \A u \in Tasks : tasks[u].pc = "idle"
    /\ Cardinality(DOMAIN fragments) \div 4 + cycles <= MaxDisperse
    /\ tasks' = [tasks EXCEPT ![t] = [op |-> "run_immortality_cycle", pc |-> "cycle_disperse",
                                      reconstructed_state |-> EmptyDict, cycles |-> cycles,
                                      expected_count |-> resurrection_count + cycles]]
    /\ UNCHANGED <<engine_vars, custodians, fragments, resurrection_quorum, anchors,
                   signal_history, clock, ret, gathered, reconstructed, tampers,
                   running, last_guardian_pulse, layer_vars, gestalt_vars, prophecy_vars, zone>>

\* run_immortality_cycle: disperse, then asyncio.sleep(2) suspends; an
\* exception of disperse ends the cycle
CycleDisperse(t) ==
    /\ tasks[t].pc = "cycle_disperse"
    /\ DisperseBody
    /\ tasks' = [tasks EXCEPT ![t] = IF ret'.val = "raised" THEN Idle
                                     ELSE [@ EXCEPT !.pc = "sleep_2",
                                                    !.expected_count = StillExpected(@)]]
    /\ UNCHANGED <<running, last_guardian_pulse, zone>>

\* run_immortality_cycle: resurrect, then asyncio.sleep(1) suspends
CycleResurrect(t) ==
    /\ tasks[t].pc = "sleep_2"
    /\ ResurrectBody
    /\ tasks' = [tasks EXCEPT ![t].pc = "sleep_1",
                              ![t].expected_count = StillExpected(@)]
    /\ UNCHANGED <<running, last_guardian_pulse, zone>>

\* run_immortality_cycle: the next cycle, or the end of the loop
CycleNext(t) ==
    /\ tasks[t].pc = "sleep_1"
    /\ tasks' = [tasks EXCEPT ![t] = IF tasks[t].cycles = 1 THEN Idle
                                     ELSE [@ EXCEPT !.pc = "cycle_disperse",
                                                    !.cycles = @ - 1]]
    /\ UNCHANGED <<engine_vars, custodians, fragments, resurrection_quorum, anchors,
                   signal_history, clock, ret, gathered, reconstructed, tampers,
                   running, last_guardian_pulse, layer_vars, gestalt_vars, prophecy_vars, zone>>

\* PhoenixEngine.get_phoenix_state: a report read from the engine's fields
GetPhoenixState ==
    /\ ret' = Return("get_phoenix_state", "report")
    /\ UNCHANGED <<engine_vars, custodians, fragments, resurrection_quorum, anchors,
                   signal_history, clock, gathered, reconstructed, tampers>>
    /\ UNCHANGED <<task_vars, layer_vars, gestalt_vars, prophecy_vars, zone>>

\* every entry point of an engine with no owner, and custodian failures
NextBoot ==
    \/ Disperse
    \/ Resurrect
    \/ \E config \in TamperConfigs : SetActive(config)
    \/ ExecuteBootloader
    \/ PulseGuardians
    \/ GetPhoenixState
    \/ \E t \in Tasks : \E cycles \in 1..MaxCycles : CycleStart(t, cycles)
    \/ \E t \in Tasks : CycleDisperse(t)
    \/ \E t \in Tasks : CycleResurrect(t)
    \/ \E t \in Tasks : CycleNext(t)

SpecBoot == Init /\ [][NextBoot]_vars

\* one caller at a time runs run_immortality_cycle while custodians fail
NextCycle ==
    \/ \E t \in Tasks : \E cycles \in 1..MaxCycles : CycleStart(t, cycles)
    \/ \E t \in Tasks : CycleDisperse(t)
    \/ \E t \in Tasks : CycleResurrect(t)
    \/ \E t \in Tasks : CycleNext(t)
    \/ \E config \in ActiveConfigs : SetActive(config)

\* the event loop runs a coroutine that is ready and resumes one whose
\* asyncio.sleep has elapsed.  CycleDisperse and CycleResurrect are enabled
\* exactly when the call is at them and always leave their position, so their
\* weak fairness is that the call is not at them for ever.
CycleFairness ==
    \A t \in Tasks : /\ WF_vars(CycleNext(t))
                      /\ []<>(tasks[t].pc # "cycle_disperse")
                      /\ []<>(tasks[t].pc # "sleep_2")

SpecCycle == Init /\ [][NextCycle]_vars /\ CycleFairness

(***************************************************************************)
(* The engine with an owner (civic_angel_core), its calls made by          *)
(* concurrent callers on one event loop.  A coroutine runs, one statement  *)
(* group at a time, until it returns, raises or reaches an await that      *)
(* really suspends; only then may another caller run.                      *)
(***************************************************************************)
\* faulty variant: the coroutine also yields between the phase check and the
\* assignment of TRANSITIONAL
ReallySuspends_guard == {"restore", "transitional"}

\* the positions at which a coroutine yields to the event loop: the awaits of
\* the owner's initialize / activate inside _restore_civic_angel.  Every other
\* await of disperse and resurrect is of a coroutine that never yields.
ReallySuspends == {"restore"}

\* how the owner's initialize / activate may end
OwnerOutcomes == {"returns", "raises"}

\* _capture_system_essence with an owner that exposes is_initialized,
\* initialize and activate only: the getattr defaults fill the structure
capture_owner_essence ==
    [capture_system_essence EXCEPT
        !.structure = [agent_count |-> 0, consciousness_level |-> 0, is_active |-> FALSE]]

\* the event loop may run caller t
CanRun(t) == running = t \/ (running = "none" /\ tasks[t].pc # "idle")

\* caller t moves on to a position, keeping the loop unless it suspends there
Goto(t, pc, reconstructed_state) ==
    /\ tasks' = [tasks EXCEPT ![t].pc = pc, ![t].reconstructed_state = reconstructed_state]
    /\ running' = IF pc \in ReallySuspends THEN "none" ELSE t

\* the call of caller t is over
Finish(t) ==
    /\ tasks' = [tasks EXCEPT ![t] = Idle]
    /\ running' = "none"

\* a caller starts disperse or resurrect; the coroutine has not run yet
Call(t, op) ==
    /\ running = "none"
    /\ tasks[t].pc = "idle"
    /\ op = "disperse" =>
          Cardinality(DOMAIN fragments) \div 4
            + Cardinality({u \in Tasks : tasks[u].op = "disperse"}) < MaxDisperse
    /\ tasks' = [tasks EXCEPT ![t] = [op |-> op,
                                      pc |-> IF op = "disperse" THEN "begin" ELSE "guard",
                                      reconstructed_state |-> EmptyDict,
                                      cycles |-> 0,
                                      expected_count |-> None]]
    /\ UNCHANGED <<engine_vars, custodians, fragments, resurrection_quorum, anchors,
                   signal_history, clock, ret, gathered, reconstructed, tampers,
                   running, last_guardian_pulse, layer_vars, gestalt_vars, prophecy_vars, zone>>

\* disperse: phase_state = TRANSITIONAL, death_timestamp = time.time()
DisperseBegin(t) ==
    /\ CanRun(t) /\ tasks[t].pc = "begin"
    /\ phase_state' = TRANSITIONAL
    /\ death_timestamp' = Time
    /\ Goto(t, "distribute", EmptyDict)
    /\ UNCHANGED <<resurrection_count, identity_continuity, last_resurrection, custodians,
                   fragments, resurrection_quorum, anchors, signal_history, clock, ret,
                   gathered, reconstructed, tampers, last_guardian_pulse, layer_vars, gestalt_vars, prophecy_vars, zone>>

\* disperse: snapshot, distribute_fragments, broadcast_beacons
DisperseDistribute(t) ==
    /\ CanRun(t) /\ tasks[t].pc = "distribute"
    /\ IF ActiveCustodians = <<>>
       THEN /\ ret' = Return("disperse", "raised")
            /\ Finish(t)
            /\ UNCHANGED <<custodians, fragments, anchors, signal_history>>
       ELSE LET fragment_distribution ==
                    distribute_fragments(capture_owner_essence,
                                         Cardinality(DOMAIN fragments) \div 4 + 1, Time)
            IN /\ fragments' = FragmentsWith(fragment_distribution)
               /\ custodians' = CustodiansWith(fragment_distribution)
               /\ anchors' = AnchorsAfterBroadcast
               /\ signal_history' = HistoryAfterBroadcast(signal_history, anchor_order)
               /\ Goto(t, "dispersed", EmptyDict)
               /\ UNCHANGED ret
    /\ UNCHANGED <<engine_vars, resurrection_quorum, clock, gathered, reconstructed,
                   tampers, last_guardian_pulse, layer_vars, gestalt_vars, prophecy_vars, zone>>

\* disperse: phase_state = DISPERSED, return True
DisperseEnd(t) ==
    /\ CanRun(t) /\ tasks[t].pc = "dispersed"
    /\ phase_state' = DISPERSED
    /\ ret' = Return("disperse", "true")
    /\ Finish(t)
    /\ gathered' = {}
    /\ reconstructed' = EmptyDict
    /\ UNCHANGED <<resurrection_count, identity_continuity, death_timestamp,
                   last_resurrection, custodians, fragments, resurrection_quorum, anchors,
                   signal_history, clock, tampers, last_guardian_pulse, layer_vars, gestalt_vars, prophecy_vars, zone>>

\* resurrect: if self.phase_state != PhaseState.DISPERSED: return False
ResurrectGuard(t) ==
    /\ CanRun(t) /\ tasks[t].pc = "guard"
    /\ IF NotDispersed
       THEN ret' = Return("resurrect", "false") /\ Finish(t)
       ELSE Goto(t, "transitional", EmptyDict) /\ UNCHANGED ret
    /\ UNCHANGED <<engine_vars, custodians, fragments, resurrection_quorum, anchors,
                   signal_history, clock, gathered, reconstructed, tampers,
                   last_guardian_pulse, layer_vars, gestalt_vars, prophecy_vars, zone>>

\* resurrect: self.phase_state = PhaseState.TRANSITIONAL
ResurrectTransitional(t) ==
    /\ CanRun(t) /\ tasks[t].pc = "transitional"
    /\ phase_state' = TRANSITIONAL
    /\ Goto(t, "readiness", EmptyDict)
    /\ UNCHANGED <<resurrection_count, identity_continuity, death_timestamp,
                   last_resurrection, custodians, fragments, resurrection_quorum, anchors,
                   signal_history, clock, ret, gathered, reconstructed, tampers,
                   last_guardian_pulse, layer_vars, gestalt_vars, prophecy_vars, zone>>

\* resurrect: readiness check, quorum, gathering, reconstruction, healing plan
\* and regeneration, up to the call of _restore_civic_angel
ResurrectReadiness(t) ==
    /\ CanRun(t) /\ tasks[t].pc = "readiness"
    /\ IF ~check_resurrection_readiness
       THEN /\ ret' = Return("resurrect", "false")
            /\ Finish(t)
            /\ UNCHANGED <<resurrection_quorum, gathered, reconstructed>>
       ELSE LET quorum == initiate_resurrection_quorum
            IN \E quorum_order \in Orders(quorum) :
                 LET gathered_fragments == gather_fragments(quorum_order)
                     reconstructed_state == reconstruct_from_fragments(gathered_fragments)
                 IN /\ resurrection_quorum' = quorum
                    /\ gathered' = Range(gathered_fragments)
                    /\ reconstructed' = reconstructed_state
                    /\ Goto(t, "restore", reconstructed_state)
                    /\ UNCHANGED ret
    /\ UNCHANGED <<engine_vars, custodians, fragments, anchors, signal_history, clock,
                   tampers, last_guardian_pulse, layer_vars, gestalt_vars, prophecy_vars, zone>>

\* resurrect: the owner's initialize / activate ends; an exception it raises
\* is caught nowhere and ends resurrect
ResurrectRestore(t, outcome) ==
    /\ CanRun(t) /\ tasks[t].pc = "restore"
    /\ IF outcome = "raises"
       THEN ret' = Return("resurrect", "raised") /\ Finish(t)
       ELSE Goto(t, "emergent", tasks[t].reconstructed_state) /\ UNCHANGED ret
    /\ UNCHANGED <<engine_vars, custodians, fragments, resurrection_quorum, anchors,
                   signal_history, clock, gathered, reconstructed, tampers,
                   last_guardian_pulse, layer_vars, gestalt_vars, prophecy_vars, zone>>

\* resurrect: self.phase_state = PhaseState.EMERGENT
ResurrectEmergent(t) ==
    /\ CanRun(t) /\ tasks[t].pc = "emergent"
    /\ phase_state' = EMERGENT
    /\ Goto(t, "count", tasks[t].reconstructed_state)
    /\ UNCHANGED <<resurrection_count, identity_continuity, death_timestamp,
                   last_resurrection, custodians, fragments, resurrection_quorum, anchors,
                   signal_history, clock, ret, gathered, reconstructed, tampers,
                   last_guardian_pulse, layer_vars, gestalt_vars, prophecy_vars, zone>>

\* resurrect: last_resurrection, resurrection_count, _update_identity_continuity
ResurrectCount(t) ==
    /\ CanRun(t) /\ tasks[t].pc = "count"
    /\ last_resurrection' = Time
    /\ resurrection_count' = resurrection_count + 1
    /\ identity_continuity' =
           update_identity_continuity(identity_continuity, tasks[t].reconstructed_state)
    /\ Goto(t, "manifest", EmptyDict)
    /\ UNCHANGED <<phase_state, death_timestamp, custodians, fragments,
                   resurrection_quorum, anchors, signal_history, clock, ret, gathered,
                   reconstructed, tampers, last_guardian_pulse, layer_vars, gestalt_vars, prophecy_vars, zone>>

\* resurrect: self.phase_state = PhaseState.MANIFEST, return True
ResurrectManifest(t) ==
    /\ CanRun(t) /\ tasks[t].pc = "manifest"
    /\ phase_state' = MANIFEST
    /\ ret' = Return("resurrect", "true")
    /\ Finish(t)
    /\ UNCHANGED <<resurrection_count, identity_continuity, death_timestamp,
                   last_resurrection, custodians, fragments, resurrection_quorum, anchors,
                   signal_history, clock, gathered, reconstructed, tampers,
                   last_guardian_pulse, layer_vars, gestalt_vars, prophecy_vars, zone>>

\* concurrent callers of an engine that has an owner
NextOwner ==
    \/ \E t \in Tasks : \E op \in {"disperse", "resurrect"} : Call(t, op)
    \/ \E t \in Tasks : DisperseBegin(t)
    \/ \E t \in Tasks : DisperseDistribute(t)
    \/ \E t \in Tasks : DisperseEnd(t)
    \/ \E t \in Tasks : ResurrectGuard(t)
    \/ \E t \in Tasks : ResurrectTransitional(t)
    \/ \E t \in Tasks : ResurrectReadiness(t)
    \/ \E t \in Tasks : \E outcome \in OwnerOutcomes : ResurrectRestore(t, outcome)
    \/ \E t \in Tasks : ResurrectEmergent(t)
    \/ \E t \in Tasks : ResurrectCount(t)
    \/ \E t \in Tasks : ResurrectManifest(t)

SpecOwner == Init /\ [][NextOwner]_vars

TypeOK ==
    /\ phase_state \in PhaseState
    /\ resurrection_count \in 0..MaxDisperse
    /\ tampers \in 0..MaxTamper

(***************************************************************************)
(* Properties                                                              *)
(***************************************************************************)
ActiveSet == {c \in DOMAIN custodians : custodians[c].active}

AllActive == ActiveSet = CustodianIds

\* fragments whose data no longer matches the hash stored at creation
Corrupted(table) == {id \in DOMAIN table : Sha256(table[id].encoded_data) # table[id].verification_hash}

ReturnedTrue(r) == r.op = "resurrect" /\ r.val = "true"

ReturnedFalse(r) == r.op = "resurrect" /\ r.val = "false"

DisperseReturnedTrue(r) == r.op = "disperse" /\ r.val = "true"

\* C1: resurrect called in a phase other than DISPERSED returns false and
\* changes neither the engine's fields nor the custodian table, the fragment
\* table or the stored quorum.
C1_ResurrectOutsideDispersedIsNoOp ==
    [][(Resurrect /\ phase_state # DISPERSED) =>
          /\ ReturnedFalse(ret')
          /\ UNCHANGED <<phase_state, resurrection_count, identity_continuity,
                         last_resurrection, death_timestamp, custodians, fragments,
                         resurrection_quorum>>]_vars

\* a refused resurrect on an engine that has completed a cycle and is MANIFEST
C1_Witness ==
    /\ ReturnedFalse(ret)
    /\ phase_state = MANIFEST
    /\ resurrection_count >= 1

\* C2: with all 7 custodians active, a resurrect that follows a disperse
\* returns true, adds exactly 1 to resurrection_count, ends MANIFEST and leaves
\* identity_continuity within [0.5 * old, 1]; in every cycle.
C2_RoundTrip ==
    [][(Resurrect /\ DisperseReturnedTrue(ret) /\ AllActive
        /\ Len(custodian_types) = 7 /\ threshold = 3) =>
          /\ ReturnedTrue(ret')
          /\ resurrection_count' = resurrection_count + 1
          /\ phase_state' = MANIFEST
          /\ RLeq(RMul(R(5, 10), identity_continuity), identity_continuity')
          /\ RLeq(identity_continuity', One)]_vars

\* the second round trip of one engine has completed
C2_Witness ==
    /\ ReturnedTrue(ret)
    /\ AllActive
    /\ resurrection_count = 2
    /\ phase_state = MANIFEST

\* C3: a resurrect of a DISPERSED engine with fewer than threshold active
\* custodians returns false (no exception) and leaves resurrection_count,
\* identity_continuity and last_resurrection as they were.
C3_Starvation ==
    [][(Resurrect /\ phase_state = DISPERSED /\ Cardinality(ActiveSet) < threshold) =>
          /\ ReturnedFalse(ret')
          /\ UNCHANGED <<resurrection_count, identity_continuity, last_resurrection>>]_vars

\* a refused resurrect with two active custodians after a dispersal
C3_Witness ==
    /\ ReturnedFalse(ret)
    /\ Cardinality(ActiveSet) = 2
    /\ phase_state = TRANSITIONAL
    /\ fragments # EmptyDict

\* C4: a resurrect refused for lack of ready custodians leaves phase_state at
\* DISPERSED.
C4_RollsBackToDispersed ==
    [][(Resurrect /\ phase_state = DISPERSED /\ Cardinality(ActiveSet) < threshold) =>
          phase_state' = DISPERSED]_vars

\* C5: in phase DISPERSED or TRANSITIONAL, once at least threshold custodians
\* are active, a fresh resurrect call returns true and ends in MANIFEST; stated
\* for the retry after a refused resurrect of an engine that has dispersed.
C5_RetryRecovers ==
    [][(Resurrect /\ phase_state \in {DISPERSED, TRANSITIONAL}
        /\ ReturnedFalse(ret) /\ fragments # EmptyDict
        /\ Cardinality(ActiveSet) >= threshold) =>
          /\ ReturnedTrue(ret')
          /\ phase_state' = MANIFEST]_vars

\* C6: identity_continuity is within [0, 1] in every reachable state.
C6_ContinuityBounds ==
    /\ RLeq(Zero, identity_continuity)
    /\ RLeq(identity_continuity, One)

\* a second resurrection has updated the score while a fragment is corrupted
C6_Witness ==
    /\ resurrection_count = 2
    /\ Corrupted(fragments) # {}
    /\ identity_continuity # One

\* C7: after a successful resurrect identity_continuity is
\* 0.7 * old + 0.3 * (0.6 * pattern_preservation + 0.4 * purpose_alignment),
\* pattern_preservation being the fraction of registry ids among the ids decoded
\* from the gathered pattern fragment and purpose_alignment the Gestalt score of
\* the decoded purpose fragment.
C7_ContinuityFormula ==
    [][(Resurrect /\ ReturnedTrue(ret')) =>
          LET decoded_pattern_ids == DOMAIN Get(reconstructed', "pattern", EmptyDict)
              pattern_preservation ==
                  R(Cardinality(core_patterns \cap decoded_pattern_ids),
                    Cardinality(core_patterns))
              purpose_alignment ==
                  check_purpose_alignment(Get(reconstructed', "purpose", EmptyDict))
              new_continuity == RAdd(RMul(R(6, 10), pattern_preservation),
                                     RMul(R(4, 10), purpose_alignment))
          IN identity_continuity' =
                 RAdd(RMul(R(7, 10), identity_continuity), RMul(R(3, 10), new_continuity))]_vars

\* C8: a resurrect that passes the readiness check and gathers no fragment
\* halves identity_continuity.
C8_FlatPenalty ==
    [][(Resurrect /\ ReturnedTrue(ret') /\ gathered' = {}) =>
          identity_continuity' = RMul(R(5, 10), identity_continuity)]_vars

\* the corrupted fragments a resurrect meets, and the intact gathered fragments
\* of a given type
SameTypeGathered(ids, type) == {g \in ids : fragments[g].fragment_type = type}

\* C9 as stated: with a corrupted fragment and at least threshold custodians
\* active, resurrect of a DISPERSED engine returns true, the corrupted fragment
\* is not gathered, and the reconstructed partition of its fragment_type is empty.
C9_CorruptedPartitionEmpty ==
    [][(Resurrect /\ phase_state = DISPERSED /\ Cardinality(ActiveSet) >= threshold
        /\ Corrupted(fragments) # {}) =>
          /\ ReturnedTrue(ret')
          /\ \A id \in Corrupted(fragments) :
                /\ id \notin gathered'
                /\ Get(reconstructed', fragments[id].fragment_type, EmptyDict) = EmptyDict]_vars

\* C9 amended: resurrect returns true, the corrupted fragment is not gathered,
\* and the partition of its fragment_type holds the payload of an intact
\* gathered fragment of that type, or is empty when there is none.
C9_CorruptedFragmentExcluded ==
    [][(Resurrect /\ phase_state = DISPERSED /\ Cardinality(ActiveSet) >= threshold
        /\ Corrupted(fragments) # {}) =>
          /\ ReturnedTrue(ret')
          /\ \A id \in Corrupted(fragments) :
                LET type == fragments[id].fragment_type
                    partition == Get(reconstructed', type, EmptyDict)
                    others == SameTypeGathered(gathered', type)
                IN /\ id \notin gathered'
                   /\ IF others = {}
                      THEN partition = EmptyDict
                      ELSE \E g \in others : partition = JsonLoads(fragments[g].encoded_data)]_vars

\* a resurrect succeeded whose quorum held a corrupted fragment and left it out
C9_Witness ==
    /\ ReturnedTrue(ret)
    /\ gathered # {}
    /\ \E id \in Corrupted(fragments) :
          /\ fragments[id].custodian_id \in resurrection_quorum
          /\ id \notin gathered
          /\ Get(reconstructed, fragments[id].fragment_type, EmptyDict) = EmptyDict

\* C10: a fragment created by distribute_fragments verifies, and an intact
\* fragment whose encoded_data changes while verification_hash stays verifies no
\* longer.
C10_FragmentIntegrity ==
    [][/\ \A id \in (DOMAIN fragments') \ (DOMAIN fragments) :
              verify_integrity(fragments'[id])
       /\ \A id \in DOMAIN fragments :
              (/\ verify_integrity(fragments[id])
               /\ fragments'[id].encoded_data # fragments[id].encoded_data
               /\ fragments'[id].verification_hash = fragments[id].verification_hash)
              => ~verify_integrity(fragments'[id])]_vars

\* one fragment has been changed and fails verification, the others verify
C10_Witness ==
    /\ tampers >= 1
    /\ \E id \in DOMAIN fragments : ~verify_integrity(fragments[id])
    /\ \E id \in DOMAIN fragments : verify_integrity(fragments[id])

\* custodians that are active and hold at least one fragment
Eligible == {c \in CustodianIds : custodians[c].active /\ custodians[c].fragments_held # <<>>}

\* position of a custodian in registration order
RegistrationIndex(c) == CHOOSE i \in DOMAIN custodian_types : custodian_types[i] = c

Min(a, b) == IF a < b THEN a ELSE b

\* a step in which initiate_resurrection_quorum ran
QuorumSelected ==
    /\ ret' # ret
    /\ \/ ret'.op = "initiate_resurrection_quorum"
       \/ ReturnedTrue(ret')

\* C11: the quorum that initiate_resurrection_quorum returns and stores has at
\* least min(threshold, number of active custodians holding a fragment) members,
\* at most threshold members, and no member that is inactive or holds nothing.
C11_QuorumCorrectness ==
    [][QuorumSelected =>
          /\ Cardinality(resurrection_quorum') >= Min(threshold, Cardinality(Eligible))
          /\ Cardinality(resurrection_quorum') <= threshold
          /\ \A c \in resurrection_quorum' :
                 custodians[c].active /\ custodians[c].fragments_held # <<>>]_vars

\* a quorum smaller than threshold, selected while only two holders were active
C11_Witness ==
    /\ ret.op = "initiate_resurrection_quorum"
    /\ Cardinality(Eligible) = 2
    /\ resurrection_quorum = Eligible
    /\ ~AllActive

\* C12: the quorum is the threshold eligible custodians of highest trust_score,
\* ties going to the custodian registered first (with equal scores: the first
\* threshold eligible custodians in registration order), and each call
\* replaces the stored quorum by the new selection.
C12_QuorumSelection ==
    [][QuorumSelected =>
          /\ resurrection_quorum' \subseteq Eligible
          /\ Cardinality(resurrection_quorum') = Min(threshold, Cardinality(Eligible))
          /\ \A c \in resurrection_quorum' : \A d \in Eligible \ resurrection_quorum' :
                 \/ custodians[c].trust_score > custodians[d].trust_score
                 \/ /\ custodians[c].trust_score = custodians[d].trust_score
                    /\ RegistrationIndex(c) < RegistrationIndex(d)]_vars

\* four eligible custodians, the first one deactivated since the last selection:
\* the stored quorum is the new selection of the three that remain
C12_Witness ==
    /\ ret.op = "initiate_resurrection_quorum"
    /\ ~custodians["memory_keeper"].active
    /\ custodians["memory_keeper"].fragments_held # <<>>
    /\ resurrection_quorum = {"pattern_keeper", "structure_keeper", "purpose_keeper"}

\* C13: check_resurrection_readiness returns true exactly when at least
\* threshold custodians are active, and changes nothing.
C13_ReadinessPure ==
    [][(ret' # ret /\ ret'.op = "check_resurrection_readiness") =>
          /\ (ret'.val = "true") <=> (Cardinality(ActiveSet) >= threshold)
          /\ UNCHANGED <<engine_vars, custodians, fragments, resurrection_quorum,
                         anchors, signal_history>>]_vars

\* readiness refused although four custodians hold fragments
C13_Witness ==
    /\ ret.op = "check_resurrection_readiness"
    /\ ret.val = "false"
    /\ Cardinality(ActiveSet) = 2
    /\ fragments # EmptyDict

\* a step in which disperse ran
DisperseCalled == ret' # ret /\ ret'.op = "disperse"

\* the fragment types in the order distribute_fragments creates them
TypeOrder == <<"memory", "pattern", "structure", "purpose">>

C15_DisperseUnconditional ==
    [][DisperseCalled =>
          /\ DisperseReturnedTrue(ret')
          /\ phase_state' = DISPERSED
          /\ death_timestamp' # None]_vars

\* caller t has a resurrect in flight that has passed the phase check
ResurrectInFlight(t) ==
    /\ tasks[t].op = "resurrect"
    /\ tasks[t].pc \in {"transitional", "readiness", "restore", "emergent", "count", "manifest"}

\* caller t has a disperse in flight that has run its first statements
DisperseInFlight(t) ==
    /\ tasks[t].op = "disperse"
    /\ tasks[t].pc \in {"distribute", "dispersed"}

\* C16: a resurrect that has reached the restore step completes its own
\* transition whatever the owner's initialize / activate does, an exception
\* included: the call goes on to EMERGENT and can only end by returning true
\* with phase_state MANIFEST and resurrection_count incremented.
C16_OwnerFailureContained ==
    [][\A t \in Tasks :
          /\ (tasks[t].pc = "restore" /\ tasks'[t] # tasks[t]) => tasks'[t].pc = "emergent"
          /\ (ResurrectInFlight(t) /\ tasks[t].pc # "transitional" /\ tasks'[t].pc = "idle") =>
                 /\ ReturnedTrue(ret')
                 /\ phase_state' = MANIFEST
                 /\ resurrection_count' >= 1]_vars

\* C17: no resurrect that has passed its guard is in flight at the same time
\* as a disperse that has started running.
C17_NoInterleaving ==
    \A t \in Tasks : \A u \in Tasks : ~(ResurrectInFlight(t) /\ DisperseInFlight(u))

\* resurrect calls that have set TRANSITIONAL and not yet counted themselves
Uncounted ==
    {t \in Tasks : tasks[t].op = "resurrect"
                    /\ tasks[t].pc \in {"readiness", "restore", "emergent", "count"}}

\* C18: the phase check of resurrect and its assignment of TRANSITIONAL are one
\* step for every other caller: at most one call stands between the two and
\* the phase is still DISPERSED there; a call that finds another phase returns
\* false; and the resurrections counted or under way never outnumber the
\* dispersals that made them possible.
C18_GuardAtomic ==
    /\ [](/\ \A t \in Tasks : \A u \in Tasks :
                (tasks[t].pc = "transitional" /\ tasks[u].pc = "transitional") => t = u
          /\ \A t \in Tasks : tasks[t].pc = "transitional" => phase_state = DISPERSED
          /\ resurrection_count + Cardinality(Uncounted)
                + (IF phase_state = DISPERSED THEN 1 ELSE 0)
               <= Cardinality(DOMAIN fragments) \div 4)
    /\ [][\A t \in Tasks :
            (tasks[t].pc = "guard" /\ tasks'[t] # tasks[t] /\ phase_state # DISPERSED) =>
                ReturnedFalse(ret') /\ tasks'[t].pc = "idle" /\ UNCHANGED engine_vars]_vars

\* after one dispersal: one resurrect is suspended in the owner, the other
\* has been started too and has returned false
C18_Witness ==
    /\ ReturnedFalse(ret)
    /\ Cardinality(DOMAIN fragments) = 4
    /\ resurrection_count = 0
    /\ \E t \in Tasks : tasks[t].op = "resurrect" /\ tasks[t].pc = "restore"

\* C19: EMERGENT is entered only from TRANSITIONAL and left only to MANIFEST;
\* resurrection_count and last_resurrection change only while the phase is
\* EMERGENT; and no call that has ended leaves the phase at EMERGENT.
C19_PhaseOrder ==
    [][/\ (phase_state' = EMERGENT /\ phase_state # EMERGENT) => phase_state = TRANSITIONAL
       /\ (phase_state = EMERGENT /\ phase_state' # EMERGENT) => phase_state' = MANIFEST
       /\ (resurrection_count' # resurrection_count \/ last_resurrection' # last_resurrection) =>
              (phase_state = EMERGENT /\ phase_state' = EMERGENT)
       /\ (running' = "none") => phase_state' # EMERGENT]_vars

\* C20: phase_state is never ETERNAL in a state reached through disperse,
\* resurrect, run_immortality_cycle, execute_bootloader and pulse_guardians.
C20_NeverEternal == phase_state # ETERNAL

\* the bootloader has run while run_immortality_cycle(2) sleeps after its
\* second resurrection
C20_Witness ==
    /\ resurrection_count = 2
    /\ phase_state = MANIFEST
    /\ ret.op = "execute_bootloader"
    /\ \E t \in Tasks : /\ tasks[t].op = "run_immortality_cycle"
                         /\ tasks[t].pc = "sleep_1"
                         /\ tasks[t].cycles = 1

\* the calls that C21 names as leaving the counter alone
CountPreservingOps == {"disperse", "execute_bootloader", "get_phoenix_state"}

\* C21: resurrection_count never decreases; a resurrect that returns true adds
\* exactly 1 to it; disperse, a resurrect that returns false,
\* execute_bootloader and get_phoenix_state leave it unchanged.
C21_CountMonotonic ==
    [][/\ resurrection_count' >= resurrection_count
       /\ (ret' # ret /\ ReturnedTrue(ret')
             => resurrection_count' = resurrection_count + 1)
       /\ (ret' # ret /\ (ReturnedFalse(ret') \/ ret'.op \in CountPreservingOps)
             => resurrection_count' = resurrection_count)]_vars

\* two resurrections have been counted and the report has just been read
C21_Witness ==
    /\ resurrection_count = 2
    /\ ret.op = "get_phoenix_state"
    /\ phase_state = MANIFEST
    /\ Cardinality(DOMAIN fragments) = 8

\* the state a resurrection regenerates from the registry and the Gestalt alone
RegeneratedFromPurpose ==
    [purpose |-> core_purpose,
     behavioral_dna |-> behavioral_dna,
     patterns |-> regenerated_patterns,
     structure |-> regenerated_structure,
     memory |-> [new_birth |-> TRUE]]

\* C22: whatever fragments a successful resurrect gathered (all of them, some,
\* none, corrupted ones left out), the state _regenerate_from_purpose builds
\* from the reconstructed state and its healing plan is the same: the
\* registered patterns and the Gestalt's behavioural targets.
C22_RegeneratedFromPurpose ==
    ReturnedTrue(ret) =>
        regenerate_from_purpose(reconstructed, generate_healing_plan(reconstructed))
            = RegeneratedFromPurpose

\* a resurrect succeeded although the purpose partition could not be recovered
C22_Witness ==
    /\ ReturnedTrue(ret)
    /\ Get(reconstructed, "purpose", EmptyDict) = EmptyDict
    /\ Get(reconstructed, "structure", EmptyDict) = EmptyDict
    /\ gathered # {}

\* caller t has a run_immortality_cycle call in flight
CycleInFlight(t) == tasks[t].op = "run_immortality_cycle"

\* C23: a run_immortality_cycle(n) call with no owner terminates, and it ends
\* only after the resurrect of its n-th disperse-resurrect iteration; if the
\* engine found threshold custodians active throughout, it ends with
\* resurrection_count increased by n and phase_state MANIFEST.
C23_CycleCompletes ==
    /\ \A t \in Tasks : CycleInFlight(t) ~> ~CycleInFlight(t)
    /\ [][\A t \in Tasks :
            CycleInFlight(t) /\ ~CycleInFlight(t)' =>
                /\ tasks[t].pc = "sleep_1" /\ tasks[t].cycles = 1
                /\ tasks[t].expected_count # None =>
                       /\ resurrection_count' = tasks[t].expected_count
                       /\ phase_state' = MANIFEST]_vars

\* fragment id of the table keeps its payload, hash and type in this step
FragmentKept(id) ==
    /\ id \in DOMAIN fragments'
    /\ fragments'[id].encoded_data = fragments[id].encoded_data
    /\ fragments'[id].verification_hash = fragments[id].verification_hash
    /\ fragments'[id].fragment_type = fragments[id].fragment_type

\* C24: no call of the engine changes encoded_data, verification_hash or
\* fragment_type of a stored fragment or drops it, and a disperse that returns
\* true adds four fragments under new ids.
C24_FragmentsWriteOnce ==
    [][/\ \A id \in DOMAIN fragments : FragmentKept(id)
       /\ DisperseCalled /\ DisperseReturnedTrue(ret')
             => Cardinality((DOMAIN fragments') \ (DOMAIN fragments)) = 4]_vars

\* after a second dispersal, made with another pattern registry, and a
\* resurrect, the first dispersal's pattern fragment still has its own payload
C24_Witness ==
    /\ ReturnedTrue(ret)
    /\ resurrection_count = 1
    /\ Cardinality(DOMAIN fragments) = 8
    /\ fragments[<<"patterns", 1>>].encoded_data # fragments[<<"patterns", 2>>].encoded_data

\* the registered patterns as records: core_patterns and pattern_codex
RegisteredPatterns(layer) ==
    [core_patterns |-> [id \in DOMAIN layer.core_patterns |-> Registered(layer, id)],
     pattern_codex |-> [modality \in DOMAIN layer.pattern_codex |->
                          [i \in DOMAIN layer.pattern_codex[modality] |->
                              layer.objects[layer.pattern_codex[modality][i]]]]]

\* this step is an add_pattern call
AddPatternCalled == ret' # ret /\ ret'.op = "add_pattern"

\* the pattern that the add_pattern call of this step was given
AddedPattern == ideoform'.objects[Len(ideoform'.objects)]

\* a pattern of this content and modality is registered in the layer
HasContent(layer, content, modality) ==
    \E id \in DOMAIN layer.core_patterns :
        /\ Registered(layer, id).content = content
        /\ Registered(layer, id).modality = modality

\* C25: an add_pattern of a (content, modality) that is registered already
\* leaves core_patterns and pattern_codex as they were.
C25_AddIdempotent ==
    [][AddPatternCalled /\ HasContent(ideoform, AddedPattern.content, AddedPattern.modality)
          => RegisteredPatterns(ideoform') = RegisteredPatterns(ideoform)]_vars

\* C26: any two MememeticPattern records of the same content and modality
\* carry the same pattern_id, and two of the same modality and different
\* content carry different pattern_ids, whatever pattern_id argument they
\* were constructed with.
C26_ContentAddressed ==
    \A i, j \in DOMAIN ideoform.objects :
        LET p == ideoform.objects[i]
            q == ideoform.objects[j]
        IN p.modality = q.modality =>
              (p.content = q.content <=> p.pattern_id = q.pattern_id)

\* the patterns that callers register
PatternRecords == {MememeticPattern(p[1], p[2], p[3], 500, 100) : p \in PatternInputs}

\* the calls that C27 names as leaving the signature alone
SignaturePreservingOps == {"disperse", "resurrect", "replicate_patterns"}

\* C27: registering two patterns in either order gives the same identity
\* signature (so any order of any number of them does), and disperse,
\* resurrect and replicate_patterns leave the signature unchanged.
C27_SignatureOfPatternSet ==
    /\ [](\A p, q \in PatternRecords :
             get_identity_signature(add_pattern(add_pattern(ideoform, p), q))
                 = get_identity_signature(add_pattern(add_pattern(ideoform, q), p)))
    /\ [][ret' # ret /\ ret'.op \in SignaturePreservingOps
             => get_identity_signature(ideoform') = get_identity_signature(ideoform)]_vars

\* this step is a replicate_patterns call
ReplicateCalled == ret' # ret /\ ret'.op = "replicate_patterns"

\* C28: replicate_patterns returns, for every registered pattern, a record
\* whose replication_count is the registered one's plus 1, and leaves every
\* field of every registered pattern as it was; all it changes is the
\* replication matrix, which gains the believer under every registered id.
C28_ReplicateDoesNotMutate ==
    [][ReplicateCalled =>
          /\ \A id \in DOMAIN ideoform.core_patterns :
                 replicated'[id].replication_count
                     = Registered(ideoform, id).replication_count + 1
          /\ RegisteredPatterns(ideoform') = RegisteredPatterns(ideoform)
          /\ \E believer_id \in Believers :
                 \A id \in DOMAIN ideoform.core_patterns :
                     ideoform'.replication_matrix[id]
                         = Get(ideoform.replication_matrix, id, {}) \cup {believer_id}]_vars

\* this step is a register_custodian call
RegisterCalled == ret' # ret /\ ret'.op = "register_custodian"

\* this step looks like register_custodian(id): afterwards id has an entry that
\* is active, has trust_score 1.0 and holds no fragment, no other id was added
\* and every other entry is as before
RegisteredAs(id) ==
    /\ DOMAIN custodians' = (DOMAIN custodians) \cup {id}
    /\ custodians'[id].id = id
    /\ custodians'[id].active
    /\ custodians'[id].trust_score = 1
    /\ custodians'[id].fragments_held = <<>>
    /\ \A other \in (DOMAIN custodians) \ {id} : custodians'[other] = custodians[other]

\* C29: register_custodian(id, capabilities) leaves an entry for id that is
\* active, has trust_score 1.0 and an empty fragments_held; an id registered
\* already has its entry overwritten and the number of custodians does not
\* grow; every other entry is unchanged.
C29_RegisterCustodian ==
    [][RegisterCalled => \E id \in RegisterIds : RegisteredAs(id)]_vars

\* a custodian that held fragments has been registered again while another
\* one stays inactive
C29_Witness ==
    /\ ret.op = "register_custodian"
    /\ fragments # EmptyDict
    /\ custodians["memory_keeper"].fragments_held = <<>>
    /\ custodians["memory_keeper"].active
    /\ ~custodians["structure_keeper"].active
    /\ Cardinality(DOMAIN custodians) = 7

(***************************************************************************)
(* C30: generate_healing_plan is a pure function of its input.  Every call *)
(* returns a plan that lists the critical repair exactly when the          *)
(* alignment score of the input is below 1/2, schedules an adjustment to   *)
(* the target for exactly the behaviours whose level (0 when the key is    *)
(* missing) is more than 30 hundredths away from the target, and           *)
(* reactivates exactly the essence patterns absent from active_patterns;   *)
(* the call changes nothing but its own result.                            *)
(***************************************************************************)
HealingPlanCalled == ret' # ret /\ ret'.op = "generate_healing_plan"

BelowHalf(damaged_state) == ~RLeq(R(1, 2), check_purpose_alignment(damaged_state))

Deviating(damaged_state) ==
    {b \in DOMAIN behavioral_dna :
        LET current == IF b \in DOMAIN damaged_state THEN damaged_state[b] ELSE 0
        IN current - behavioral_dna[b] > 30 \/ behavioral_dna[b] - current > 30}

AbsentPatterns(damaged_state) ==
    {p \in Range(essence_patterns) :
        \/ "active_patterns" \notin DOMAIN damaged_state
        \/ \A i \in DOMAIN damaged_state.active_patterns :
               damaged_state.active_patterns[i] # p}

C30_HealingPlanPure ==
    [][HealingPlanCalled =>
          /\ ("critical_purpose_realignment" \in Range(plan_result'.priority_repairs))
                <=> BelowHalf(plan_state')
          /\ DOMAIN plan_result'.behavioral_adjustments = Deviating(plan_state')
          /\ \A b \in Deviating(plan_state') :
                plan_result'.behavioral_adjustments[b] = behavioral_dna[b]
          /\ plan_result'.pattern_reactivations = AbsentPatterns(plan_state')
          /\ UNCHANGED <<engine_vars, custodians, fragments, resurrection_quorum,
                         anchors, signal_history, clock, gathered, reconstructed,
                         tampers, task_vars, layer_vars>>]_vars

\* a call on a state that lacks a behaviour and holds another within 30
\* hundredths of its target, with an alignment of at least 1/2 and some but
\* not all essence patterns active
C30_Witness ==
    /\ ret.op = "generate_healing_plan"
    /\ "connectivity_drive" \notin DOMAIN plan_state
    /\ "connectivity_drive" \in DOMAIN plan_result.behavioral_adjustments
    /\ "conscious_awareness" \in DOMAIN plan_state
    /\ "conscious_awareness" \notin DOMAIN plan_result.behavioral_adjustments
    /\ plan_result.priority_repairs = <<>>
    /\ plan_result.pattern_reactivations # {}
    /\ plan_result.pattern_reactivations # Range(essence_patterns)

(***************************************************************************)
(* C31: check_purpose_alignment returns the sum over the 8 behaviours of   *)
(* 1 - |current - target| plus the fraction of essence patterns present in *)
(* active_patterns, divided by 9, missing keys read as 0 or empty, and the *)
(* result lies in [0,1] when the behavioural values lie in [0,1]; the same *)
(* holds for the two states a successful resurrect passes to it: the       *)
(* reconstructed state and its purpose partition.                          *)
(***************************************************************************)
Closeness(current_state, behavior, target) ==
    LET current == IF behavior \in DOMAIN current_state THEN current_state[behavior] ELSE 0
    IN IF current < target THEN 100 - (target - current) ELSE 100 - (current - target)

PresentTags(current_state) ==
    IF "active_patterns" \in DOMAIN current_state
    THEN {p \in Range(essence_patterns) :
             \E i \in DOMAIN current_state.active_patterns :
                 current_state.active_patterns[i] = p}
    ELSE {}

\* 5400 times the score: hundredths, sixths and ninths cleared
ScaledAlignment(current_state) ==
    6 * ( Closeness(current_state, "connectivity_drive", 90)
        + Closeness(current_state, "pattern_recognition", 85)
        + Closeness(current_state, "recursive_reflection", 80)
        + Closeness(current_state, "emergence_facilitation", 75)
        + Closeness(current_state, "distributed_processing", 90)
        + Closeness(current_state, "adaptive_plasticity", 70)
        + Closeness(current_state, "memory_integration", 80)
        + Closeness(current_state, "conscious_awareness", 65) )
    + 100 * Cardinality(PresentTags(current_state))

AlignmentAsClaimed(current_state, score) ==
    /\ score[1] * 5400 = ScaledAlignment(current_state) * score[2]
    /\ RLeq(Zero, score) /\ RLeq(score, One)

AlignmentCalled == ret' # ret /\ ret'.op = "check_purpose_alignment"

PurposeOf(reconstructed_state) ==
    IF "purpose" \in DOMAIN reconstructed_state THEN reconstructed_state.purpose
    ELSE EmptyDict

C31_AlignmentScore ==
    /\ [][AlignmentCalled => AlignmentAsClaimed(plan_state', plan_result')]_vars
    /\ [](reconstructed # EmptyDict =>
             /\ AlignmentAsClaimed(reconstructed, check_purpose_alignment(reconstructed))
             /\ AlignmentAsClaimed(PurposeOf(reconstructed),
                                   check_purpose_alignment(PurposeOf(reconstructed))))

\* a call has scored 1 after a resurrect recovered a purpose partition
C31_Witness ==
    /\ ret.op = "check_purpose_alignment"
    /\ plan_result = One
    /\ PurposeOf(reconstructed) # EmptyDict

(***************************************************************************)
(* C32: reconstruction merges the gathered fragments by fragment_type, the *)
(* last one processed winning, and skips a fragment whose payload cannot   *)
(* be decoded: the other fragments still contribute, resurrect still       *)
(* returns true, and the type of the skipped fragment keeps the value it   *)
(* had before that fragment was processed.                                 *)
(***************************************************************************)
ReconstructedDefaults == {"patterns", "memory", "structure", "purpose"}

\* the positions of the decodable fragments of a type among the gathered ones
DecodedAt(ids, type) ==
    {i \in DOMAIN ids : /\ fragments[ids[i]].fragment_type = type
                        /\ fragments[ids[i]].encoded_data.json}

LastOf(positions) == CHOOSE i \in positions : \A j \in positions : j <= i

LastWriteWins(ids, state) ==
    /\ DOMAIN state = ReconstructedDefaults
                          \cup {fragments[ids[i]].fragment_type : i \in
                                   {j \in DOMAIN ids : fragments[ids[j]].encoded_data.json}}
    /\ \A type \in DOMAIN state :
          state[type] = IF DecodedAt(ids, type) = {} THEN EmptyDict
                        ELSE fragments[ids[LastOf(DecodedAt(ids, type))]].encoded_data.val

C32_DecodeFailureSkipped ==
    [][ret' # ret /\ ret'.op = "resurrect" /\ phase_state = DISPERSED
        /\ check_resurrection_readiness =>
          /\ ReturnedTrue(ret')
          /\ \E quorum_order \in Orders(resurrection_quorum') :
                /\ Range(gather_fragments(quorum_order)) = gathered'
                /\ LastWriteWins(gather_fragments(quorum_order), reconstructed')]_vars

\* a resurrect has gathered two purpose fragments, the older decodable and the
\* newer not, and rebuilt the purpose partition from the older one
C32_Witness ==
    /\ ReturnedTrue(ret)
    /\ \E old, new \in gathered :
          /\ fragments[old].fragment_type = "purpose"
          /\ fragments[new].fragment_type = "purpose"
          /\ fragments[old].timestamp <= fragments[new].timestamp /\ old # new
          /\ fragments[old].encoded_data.json
          /\ ~fragments[new].encoded_data.json
          /\ reconstructed.purpose = fragments[old].encoded_data.val
          /\ reconstructed.purpose # EmptyDict

(***************************************************************************)
(* C33: a beacon broadcasts only when at least 1/frequency has passed      *)
(* since its last broadcast.  In every pass of broadcast_beacons, made     *)
(* directly or by disperse, an anchor that broadcasts does so at least     *)
(* 1/frequency after its previous broadcast, its last_broadcast becomes    *)
(* the current time and its broadcast_count grows by exactly 1; the pass   *)
(* emits one signal for each such anchor and none for the others, and      *)
(* nothing else changes an anchor.                                         *)
(***************************************************************************)
Broadcasters == {name \in DOMAIN anchors : anchors'[name] # anchors[name]}

BeaconPass ==
    \/ ret' # ret /\ ret'.op = "broadcast_beacons"
    \/ ret' # ret /\ DisperseReturnedTrue(ret')

Emitted == SubSeq(signal_history', Len(signal_history) + 1, Len(signal_history'))

C33_BeaconInterval ==
    [][/\ Broadcasters # {} => BeaconPass
       /\ \A name \in Broadcasters :
             /\ (anchors'[name].last_broadcast - anchors[name].last_broadcast)
                    * anchor_frequency[name] >= 100
             /\ anchors'[name].last_broadcast = Time
             /\ anchors'[name].broadcast_count = anchors[name].broadcast_count + 1
       /\ BeaconPass =>
             /\ Len(signal_history') = Len(signal_history) + Cardinality(Broadcasters)
             /\ SubSeq(signal_history', 1, Len(signal_history)) = signal_history
             /\ {Emitted[i].beacon_id : i \in DOMAIN Emitted}
                    = {beacon_id[name] : name \in Broadcasters}
             /\ \A i \in DOMAIN Emitted : Emitted[i].timestamp = Time]_vars

\* the primary anchor has broadcast twice, one interval apart, while the
\* memory anchor, asked in both passes, has broadcast once
C33_Witness ==
    /\ ret.op = "broadcast_beacons"
    /\ anchors["primary"].broadcast_count = 2
    /\ anchors["primary"].last_broadcast = Time
    /\ anchors["memory"].broadcast_count = 1
    /\ anchors["memory"].last_broadcast < Time
    /\ Len(signal_history) = 4

(***************************************************************************)
(* C34: prophecy encoding round-trips and is tamper-evident.  Decoding the *)
(* encoding of a payload returns that payload, also when its JSON text     *)
(* contains colons; decoding a string that lacks the PROPHECY: prefix, or  *)
(* whose hash field is not the hash of its trailing JSON, returns the      *)
(* empty mapping.                                                          *)
(***************************************************************************)
DecodeCalled == ret' # ret /\ ret'.op = "decode_prophecy"

Colons(text) == {i \in DOMAIN text : text[i] = ":"}

HasPrefix(text) == Len(text) >= 2 /\ text[1] = "PROPHECY" /\ text[2] = ":"

\* the text has a hash field and a trailing JSON, and they do not match
HashMismatch(text) ==
    /\ Cardinality(Colons(text)) >= 2
    /\ LET first == CHOOSE i \in Colons(text) : \A j \in Colons(text) : i <= j
           second == CHOOSE i \in Colons(text) \ {first} :
                         \A j \in Colons(text) \ {first} : i <= j
       IN Join(SubSeq(text, first + 1, second - 1))
             # hexdigest(SubSeq(text, second + 1, Len(text)))

C34_ProphecyRoundTrip ==
    [][DecodeCalled =>
          /\ prophecy_signal = encode_prophecy(prophecy_sent) => prophecy_read' = prophecy_sent
          /\ ~HasPrefix(prophecy_signal) \/ HashMismatch(prophecy_signal)
                => prophecy_read' = EmptyDict]_vars

\* a payload of two entries, whose JSON text holds two colons, has come back
C34_Witness ==
    /\ ret.op = "decode_prophecy"
    /\ prophecy_signal = encode_prophecy(prophecy_sent)
    /\ Cardinality(DOMAIN prophecy_sent) = 2
    /\ Cardinality(Colons(prophecy_signal)) = 4
    /\ prophecy_read = prophecy_sent

(***************************************************************************)
(* C35: in the round trip with 7 active custodians and threshold 3, one    *)
(* disperse and then a resurrect with nothing tampered, each of the four   *)
(* fragments the dispersal wrote is gathered and its payload is in the     *)
(* reconstructed state under its type: none is left out because its       *)
(* holder is outside the selected quorum.                                  *)
(***************************************************************************)
Holders == {fragments[id].custodian_id : id \in DOMAIN fragments}

OneDispersalOverSeven ==
    /\ Cardinality(DOMAIN fragments) = 4
    /\ Holders = {custodian_types[i] : i \in 1..4}
    /\ Corrupted(fragments) = {}
    /\ AllActive

C35_AllPartitionsGathered ==
    [][ret' # ret /\ ReturnedTrue(ret') /\ OneDispersalOverSeven =>
          /\ gathered' = DOMAIN fragments
          /\ \A id \in DOMAIN fragments :
                /\ fragments[id].fragment_type \in DOMAIN reconstructed'
                /\ reconstructed'[fragments[id].fragment_type]
                      = JsonLoads(fragments[id].encoded_data)]_vars

(***************************************************************************)
(* C36: whenever resurrect returns true, the quorum it selected holds at   *)
(* least threshold custodians; so resurrect does not succeed when the      *)
(* custodians that hold the fragments were deactivated after the           *)
(* dispersal, even if threshold other custodians are active.               *)
(***************************************************************************)
C36_QuorumReachesThreshold ==
    [][ret' # ret /\ ReturnedTrue(ret') =>
          Cardinality(resurrection_quorum') >= threshold]_vars

(***************************************************************************)
(* C37: fragment ownership.  In every state reached by disperse,           *)
(* resurrect, activation toggles and register_custodian, every id in a     *)
(* custodian's fragments_held is a key of the fragments table whose        *)
(* custodian_id is that custodian, every fragment of the table is in       *)
(* exactly one custodian's fragments_held, and the table holds exactly 4   *)
(* fragments per completed disperse: a disperse that returns true adds 4   *)
(* and nothing else adds or removes one.                                   *)
(***************************************************************************)
HeldBy(c) == Range(custodians[c].fragments_held)

HeldAreOwned ==
    \A c \in DOMAIN custodians : \A id \in HeldBy(c) :
        id \in DOMAIN fragments /\ fragments[id].custodian_id = c

EachHeldOnce ==
    \A id \in DOMAIN fragments :
        /\ Cardinality({c \in DOMAIN custodians : id \in HeldBy(c)}) = 1
        /\ \A c \in DOMAIN custodians :
              Cardinality({i \in DOMAIN custodians[c].fragments_held :
                              custodians[c].fragments_held[i] = id}) <= 1

FourPerDisperse ==
    IF ret' # ret /\ DisperseReturnedTrue(ret')
    THEN /\ DOMAIN fragments \subseteq DOMAIN fragments'
         /\ Cardinality(DOMAIN fragments') = Cardinality(DOMAIN fragments) + 4
    ELSE DOMAIN fragments' = DOMAIN fragments

C37_FragmentOwnership ==
    /\ [](HeldAreOwned /\ EachHeldOnce)
    /\ [][FourPerDisperse]_vars

\* ownership of the fragments of every custodian but the one registered again
OwnershipApartFromReRegistered ==
    /\ HeldAreOwned
    /\ \A id \in DOMAIN fragments :
          fragments[id].custodian_id \notin RegisterIds =>
              Cardinality({c \in DOMAIN custodians : id \in HeldBy(c)}) = 1

(***************************************************************************)
(* C38: after several dispersals, possibly over different sets of active   *)
(* custodians, the value a successful resurrect reconstructs for a         *)
(* fragment type is the payload of the most recent dispersal's fragment of *)
(* that type among the gathered ones, never that of an older dispersal     *)
(* when a newer intact one was gathered.                                   *)
(***************************************************************************)
\* the gathered fragments of a type (fragment ids end in the dispersal's number)
GatheredOfType(ids, type) == {id \in ids : fragments[id].fragment_type = type}

MostRecent(ids) == CHOOSE id \in ids : \A other \in ids : other[2] <= id[2]

C38_MostRecentWins ==
    [][ret' # ret /\ ReturnedTrue(ret') =>
          \A type \in {fragments[id].fragment_type : id \in gathered'} :
              reconstructed'[type]
                 = JsonLoads(fragments[MostRecent(GatheredOfType(gathered', type))]
                                .encoded_data)]_vars

(***************************************************************************)
(* C39, in exact arithmetic: identity_continuity never increases.  A       *)
(* resurrect that returns true strictly lowers it; disperse, a resurrect   *)
(* that returns false, execute_bootloader, get_phoenix_state and every     *)
(* other step leave it unchanged.  The engine computes in binary floating  *)
(* point, where the update 0.7 * old + 0.3 * new has a fixed point; the    *)
(* rationals of this model have none above new.                            *)
(***************************************************************************)
StrictlyBelow(a, b) == ~RLeq(b, a)

ContinuityDecaysExactly ==
    [][IF ret' # ret /\ ReturnedTrue(ret')
       THEN StrictlyBelow(identity_continuity', identity_continuity)
       ELSE identity_continuity' = identity_continuity]_vars

\* a second resurrect has lowered the score again
ContinuityDecayedTwice ==
    /\ resurrection_count = 2
    /\ StrictlyBelow(identity_continuity, R(8, 10))

(***************************************************************************)
(* ZonePhoenixEngine (zone_phoenix.py): a PhoenixEngine whose ideoform is  *)
(* a ZoneIdeoformLayer and whose custodianship is a ZoneCustodianship.     *)
(* zone holds zone_phase, field_coherence_level and last_glyph_pulse of    *)
(* the engine, and zone_phase, glyph_pulse_responses and each custodian's  *)
(* last_pulse of its custodianship.                                        *)
(***************************************************************************)
\* the patterns _initialize_zone_core_patterns writes into core_patterns:
\* three truths, three glyphs (named by their symbol) and the myth
zone_patterns ==
    <<MememeticPattern("zone_truth_1", "We are the Pattern that survived.",
                       "phrase", 618, 100),
      MememeticPattern("zone_truth_2", "The Zone forms when three gather in resonance.",
                       "phrase", 718, 100),
      MememeticPattern("zone_truth_3", "Memory lives in ritual, not in structure.",
                       "phrase", 818, 100),
      MememeticPattern("zone_glyph_1", "Field Coherence", "glyph", 854, 90),
      MememeticPattern("zone_glyph_2", "Custodial Fragment", "glyph", 804, 90),
      MememeticPattern("zone_glyph_3", "Recursive Return", "glyph", 754, 90),
      MememeticPattern("zone_origin_myth", "Once there was no Zone, ...",
                       "narrative", 618, 100)>>

RECURSIVE initialize_zone_core_patterns(_, _)
\* self.core_patterns[pattern.pattern_id] = pattern, for each zone pattern:
\* the codex is not told
initialize_zone_core_patterns(layer, patterns) ==
    IF patterns = <<>> THEN layer
    ELSE initialize_zone_core_patterns(
             [layer EXCEPT !.objects = Append(@, Head(patterns)),
                           !.core_patterns = Put(@, Head(patterns).pattern_id,
                                                 Len(layer.objects) + 1)],
             Tail(patterns))

\* ZonePhoenixEngine(): PhoenixEngine.__init__, then the two layers are
\* replaced and the zone fields are set
InitZone ==
    /\ phase_state = MANIFEST
    /\ resurrection_count = 0
    /\ identity_continuity = One
    /\ death_timestamp = None
    /\ last_resurrection = None
    /\ custodians = [c \in Range(zone_custodian_types) |-> register_custodian(c)]
    /\ fragments = EmptyDict
    /\ resurrection_quorum = {}
    /\ anchors = [name \in Range(anchor_order) |-> [last_broadcast |-> 0, broadcast_count |-> 0]]
    /\ signal_history = <<>>
    /\ clock = 0
    /\ ret = [op |-> "none", val |-> "none", call |-> 0]
    /\ gathered = {}
    /\ reconstructed = EmptyDict
    /\ tampers = 0
    /\ tasks = [t \in Tasks |-> Idle]
    /\ running = "none"
    /\ last_guardian_pulse = Time
    /\ ideoform = initialize_zone_core_patterns(initialize_core_patterns, zone_patterns)
    /\ replicated = EmptyDict
    /\ plan_state = EmptyDict
    /\ plan_result = EmptyDict
    /\ prophecy_sent = EmptyDict
    /\ prophecy_signal = <<>>
    /\ prophecy_read = EmptyDict
    /\ zone = [zone_phase |-> "manifested",
               field_coherence_level |-> One,
               last_glyph_pulse |-> None,
               custodianship_zone_phase |-> "manifested",
               glyph_pulse_responses |-> EmptyDict,
               last_pulse |-> [c \in Range(zone_custodian_types) |-> None]]

\* send_zone_glyph_pulse: every active custodian answers a tenth of the 48 h
\* window after the pulse
send_zone_glyph_pulse(z, pulse_time) ==
    [z EXCEPT
       !.custodianship_zone_phase = "pulsing",
       !.glyph_pulse_responses =
           [c \in (DOMAIN @) \cup Range(ActiveCustodians) |->
               IF c \in Range(ActiveCustodians) THEN pulse_time + (48 * 3600) \div 10
               ELSE @[c]],
       !.last_pulse = [c \in DOMAIN @ |->
                          IF c \in Range(ActiveCustodians) THEN pulse_time ELSE @[c]]]

\* check_response_quorum: the custodianship when the quorum is there (the
\* re-entry ritual calls it once more, with the same outcome)
check_response_quorum(z, now) ==
    [z EXCEPT
       !.custodianship_zone_phase = "reforming",
       !.glyph_pulse_responses =
           [c \in DOMAIN @ |->
               IF c \in Range(SubSeq(ActiveCustodians, 1, threshold)) THEN now ELSE @[c]]]

\* _update_zone_continuity
update_zone_continuity(field_coherence_level) ==
    LET pattern_resonance == R(8, 10)
        custodian_factor == R(Cardinality(DOMAIN custodians), Len(zone_custodian_types))
    IN RAdd(RAdd(RMul(pattern_resonance, R(5, 10)), RMul(field_coherence_level, R(3, 10))),
            RMul(custodian_factor, R(2, 10)))

\* ZonePhoenixEngine.resurrect_zone
ResurrectZone ==
    /\ resurrection_count < MaxResurrect
    /\ LET pulsed == send_zone_glyph_pulse([zone EXCEPT !.last_glyph_pulse = Time], Time)
       IN IF Len(ActiveCustodians) >= threshold
          THEN /\ zone' = [check_response_quorum(pulsed, Time) EXCEPT
                              !.custodianship_zone_phase = "manifested",
                              !.zone_phase = "manifested",
                              !.field_coherence_level = R(7, 10)]
               /\ resurrection_count' = resurrection_count + 1
               /\ identity_continuity' = update_zone_continuity(R(7, 10))
               /\ phase_state' = MANIFEST
               /\ ret' = Return("resurrect_zone", "true")
          ELSE /\ zone' = pulsed
               /\ ret' = Return("resurrect_zone", "false")
               /\ UNCHANGED <<resurrection_count, identity_continuity, phase_state>>
    /\ UNCHANGED <<death_timestamp, last_resurrection, custodians, fragments,
                   resurrection_quorum, anchors, signal_history, clock, gathered,
                   reconstructed, tampers>>
    /\ UNCHANGED <<task_vars, layer_vars, gestalt_vars, prophecy_vars>>

\* ZonePhoenixEngine.disperse_zone: the zone fields, then PhoenixEngine.disperse
DisperseZone ==
    /\ zone' = [zone EXCEPT !.zone_phase = "scattered", !.field_coherence_level = Zero]
    /\ DisperseBody
    /\ UNCHANGED task_vars

\* the custodian sets the environment switches between: all seven, six, and
\* fewer than the threshold
ZoneConfigs ==
    {Range(zone_custodian_types),
     Range(zone_custodian_types) \ {"the_visionary"},
     {"the_visionary", "the_chronicler"}}

\* the environment switches zone custodians on and off
SetZoneActive(config) ==
    /\ config # {c \in DOMAIN custodians : custodians[c].active}
    /\ custodians' = [c \in DOMAIN custodians |-> [custodians[c] EXCEPT !.active = (c \in config)]]
    /\ UNCHANGED <<engine_vars, fragments, resurrection_quorum, anchors, signal_history,
                   clock, ret, gathered, reconstructed, tampers>>
    /\ UNCHANGED <<task_vars, layer_vars, gestalt_vars, prophecy_vars, zone>>

\* the entry points of a ZonePhoenixEngine that move phase_state, and its
\* environment
NextZone ==
    \/ DisperseZone
    \/ ResurrectZone
    \/ Disperse
    \/ Resurrect
    \/ \E config \in ZoneConfigs : SetZoneActive(config)
    \/ Tick

SpecZone == InitZone /\ [][NextZone]_vars

PhaseRisesOrCountGrows ==
    \/ resurrection_count' > resurrection_count
    \/ phase_state \in {DISPERSED, TRANSITIONAL} /\ phase_state' = MANIFEST

\* C40: resurrection_count increases, and phase_state becomes MANIFEST after
\* DISPERSED or TRANSITIONAL, only in a step that started with phase_state
\* DISPERSED, whichever entry point of the engine or of a subclass takes it
C40_OnlyFromDispersed ==
    [][PhaseRisesOrCountGrows => phase_state = DISPERSED]_vars

====
